---------------------------- MODULE Spec2Model ----------------------------
(***************************************************************************)
(* A model of image_manipulation/img_manip.py: the artifact generators     *)
(* (add_marker, add_fold, add_sectioning, add_illumination, add_bubbles,   *)
(* add_stain, add_tear), the helpers rand_spline and rand_gauss, the       *)
(* shared numpy random generator they seed and draw from, and the seed     *)
(* derivation of apply_artifact.                                           *)
(*                                                                         *)
(* Every function of the source is an action; the state is the frame of    *)
(* the last call of each function and the state of the shared generator.   *)
(* Each component has its own specification (SpecSeed, SpecSpline, ...):   *)
(* a specification moves the frames of its own component and leaves the    *)
(* others idle.                                                            *)
(***************************************************************************)
EXTENDS Integers, Sequences, FiniteSets, TLC

VARIABLES
    app,     \* apply_artifact: the frame of the last call
    spl,     \* rand_spline: the frame of the last call
    ras,     \* add_marker / add_bubbles / add_sectioning: the frame of the last call
    fold,    \* add_fold: the recursion (call stack, layers run, result)
    cmp,     \* two calls of one generator that differ in one argument: both frames
    rng,     \* the state of numpy's shared generator np.random
    gen      \* the generator calls made on it so far, in order, with what each drew

vars == <<app, spl, ras, fold, cmp, rng, gen>>

Idle == [pc |-> "idle"]

(***************************************************************************)
(* Python integers.  TLC's integers are 32-bit and the source computes     *)
(* with a 256-bit digest and with seeds up to 2^32 - 1, so an integer is   *)
(* kept in limbs of 16 bits:                                               *)
(*   - a small integer is [hi, lo] with value hi * 2^16 + lo,              *)
(*     lo in 0 .. 2^16 - 1 and hi any integer (negative for a negative     *)
(*     value);                                                             *)
(*   - a big integer is [neg, mag], mag the little-endian limbs of its     *)
(*     magnitude.                                                          *)
(***************************************************************************)
Limb == 2 ^ 16

I2(h, l) == [hi |-> h, lo |-> l]

\* the small integer of value k (|k| < 2^31)
SmallInt(k) == I2(k \div Limb, k % Limb)

RECURSIVE Trim(_)
Trim(mag) ==
    IF mag # <<>> /\ mag[Len(mag)] = 0 THEN Trim(SubSeq(mag, 1, Len(mag) - 1)) ELSE mag

RECURSIVE NatAdd(_, _)
\* magnitude + k, for 0 <= k < 2^31 - 2^16
NatAdd(mag, k) ==
    IF mag = <<>>
    THEN IF k = 0 THEN <<>> ELSE <<k % Limb>> \o NatAdd(<<>>, k \div Limb)
    ELSE LET s == mag[1] + k
         IN  <<s % Limb>> \o NatAdd(Tail(mag), s \div Limb)

RECURSIVE NatSub(_, _)
\* magnitude - k, for 0 <= k <= magnitude
NatSub(mag, k) ==
    IF mag = <<>>
    THEN <<>>
    ELSE LET s == mag[1] - k
         IN  <<s % Limb>> \o NatSub(Tail(mag), -(s \div Limb))

\* magnitude >= k, for 0 <= k < 2^31
NatGeq(mag, k) ==
    LET m == Trim(mag)
    IN  \/ Len(m) >= 3
        \/ Len(m) = 2 /\ (m[2] >= Limb \div 2 \/ m[2] * Limb + m[1] >= k)
        \/ Len(m) = 1 /\ m[1] >= k
        \/ Len(m) = 0 /\ k = 0

\* the value of a magnitude below 2^31
NatVal(mag) ==
    LET m == Trim(mag)
    IN  IF Len(m) = 0 THEN 0 ELSE IF Len(m) = 1 THEN m[1] ELSE m[2] * Limb + m[1]

Abs(k) == IF k < 0 THEN -k ELSE k

\* x + k for a big integer x and a Python int k with |k| < 2^31 - 2^16
IntAdd(x, k) ==
    LET towards == (x.neg /\ k > 0) \/ (~x.neg /\ k < 0)   \* k pulls x towards zero
    IN  IF ~towards
        THEN [neg |-> x.neg, mag |-> Trim(NatAdd(x.mag, Abs(k)))]
        ELSE IF NatGeq(x.mag, Abs(k))
        THEN LET m == Trim(NatSub(x.mag, Abs(k)))
             IN  [neg |-> x.neg /\ m # <<>>, mag |-> m]
        ELSE [neg |-> ~x.neg, mag |-> Trim(NatAdd(<<>>, Abs(k) - NatVal(x.mag)))]

RECURSIVE Norm32(_, _)
\* hi * 2^16 + lo (hi, lo >= 0) reduced modulo 2^32 - 1, using 2^32 = 1 (mod 2^32 - 1)
Norm32(hi, lo) ==
    IF lo >= Limb THEN Norm32(hi + lo \div Limb, lo % Limb)
    ELSE IF hi >= Limb THEN Norm32(hi % Limb, lo + hi \div Limb)
    ELSE IF hi = Limb - 1 /\ lo = Limb - 1 THEN I2(0, 0)
    ELSE I2(hi, lo)

RECURSIVE NatModRandMax(_, _)
\* (acc + magnitude) % (2^32 - 1): the 32-bit chunks of the magnitude are summed
\* modulo 2^32 - 1
NatModRandMax(mag, acc) ==
    IF mag = <<>>
    THEN Norm32(acc.hi, acc.lo)
    ELSE LET l0 == mag[1]
             l1 == IF Len(mag) > 1 THEN mag[2] ELSE 0
             rest == IF Len(mag) > 2 THEN SubSeq(mag, 3, Len(mag)) ELSE <<>>
         IN  NatModRandMax(rest, Norm32(acc.hi + l1, acc.lo + l0))

\* a faulty variant of PyModRandMax: a remainder that takes the sign of the
\* dividend (C's %), so a negative random_hash gives a negative seed
TruncModRandMax(x) ==
    LET r == NatModRandMax(x.mag, I2(0, 0))
    IN  IF ~x.neg \/ (r.hi = 0 /\ r.lo = 0) THEN r
        ELSE IF r.lo = 0 THEN I2(-r.hi, 0) ELSE I2(-r.hi - 1, Limb - r.lo)

\* x % randMax with randMax = 2^32 - 1, Python's %: the result is in 0 .. randMax - 1
\* also for a negative x
PyModRandMax(x) ==
    LET r == NatModRandMax(x.mag, I2(0, 0))
    IN  IF ~x.neg \/ (r.hi = 0 /\ r.lo = 0) THEN r
        ELSE I2((Limb - 1) - r.hi, (Limb - 1) - r.lo)

\* n + k for a small integer n and |k| < 2^16
SmallAdd(n, k) == I2(n.hi + (n.lo + k) \div Limb, (n.lo + k) % Limb)

\* 0 <= n <= 2^32 - 1: what np.random.seed accepts as an integer seed
InSeedRange(n) == n.hi >= 0 /\ n.hi <= Limb - 1 /\ n.lo >= 0 /\ n.lo <= Limb - 1


(***************************************************************************)
(* apply_artifact: identity, digest and seed derivation                    *)
(***************************************************************************)
\* Python values that the code compares across types (True == 1,
\* False in range(0,4)) are records [t, v]: a bool has v = 0 or 1
PyBool(b) == [t |-> "bool", v |-> IF b THEN 1 ELSE 0]
PyInt(k) == [t |-> "int", v |-> k]
PyNone == [t |-> "none", v |-> 0]

\* x == k, for a Python value x and an int k
PyEq(x, k) == x.t # "none" /\ x.v = k
\* x in range(lo, hi)
PyInRange(x, lo, hi) == x.t # "none" /\ lo <= x.v /\ x.v < hi

\* an optional argument: None, or Some(x) when the caller gives x
None == <<>>
Some(x) == <<x>>

ArtifactTypes == {"marker", "fold", "sectioning", "illumination", "bubbles", "stain", "tear"}

\* artifactType.lower() on the spellings the model passes in
Lower(s) ==
    CASE s = "MARKER" -> "marker"
      [] s = "Tear"   -> "tear"
      [] OTHER        -> s

\* a faulty variant of typeSeedAdd: two types share an offset
typeSeedAddShared(t) ==
    CASE t = "marker" -> 1 [] t = "fold" -> 2 [] t = "sectioning" -> 3
      [] t = "illumination" -> 4 [] t = "bubbles" -> 5 [] t = "stain" -> 6 [] t = "tear" -> 1

typeSeedAdd(t) ==
    CASE t = "marker" -> 1 [] t = "fold" -> 2 [] t = "sectioning" -> 3
      [] t = "illumination" -> 4 [] t = "bubbles" -> 5 [] t = "stain" -> 6 [] t = "tear" -> 7

\* a faulty variant of typeTileRand: every type is randomised per tile
typeTileRandAll(t) == TRUE

\* lines 839-840
typeTileRand(t) == t # "stain"

\* the generator that the if/elif chain calls for a type
GeneratorOf(t) ==
    CASE t = "marker" -> "add_marker" [] t = "fold" -> "add_fold"
      [] t = "sectioning" -> "add_sectioning" [] t = "illumination" -> "add_illumination"
      [] t = "bubbles" -> "add_bubbles" [] t = "stain" -> "add_stain" [] t = "tear" -> "add_tear"

\* the path components of the input files: <rDir2>/<rDir1>/<stem>.<ext>
Cohorts == {"cohort"}
Slides == <<"slideA", "slideB">>
Stems == <<"tile1", "tile2", "tile3">>
Exts == {"jpeg", ""}

InputNames ==
    [rDir2 : Cohorts, rDir1 : {Slides[i] : i \in DOMAIN Slides},
     stem : {Stems[i] : i \in DOMAIN Stems}, ext : Exts]

IndexIn(seq, x) == CHOOSE i \in DOMAIN seq : seq[i] = x

\* fID: os.path.join of the components
TileID(f) == <<f.rDir2, f.rDir1, f.stem>>
SlideID(f) == <<f.rDir2, f.rDir1>>

\* 256-bit digests as 16 big-endian limbs (4 hex digits each): <<high 12 limbs>> \o low 4
Zeros(n) == [i \in 1 .. n |-> 0]
Ones(n) == [i \in 1 .. n |-> Limb - 1]
Mixed12 == <<40503, 31161, 32586, 31765, 7, 0, 65535, 1, 0, 12, 4660, 22136>>

DigestTable ==
    << Zeros(12) \o <<0, 0, 0, 3>>,                        \* 3: smaller than |randAdd|
       Zeros(12) \o <<0, 0, Limb - 1, Limb - 2>>,          \* 2^32 - 2 = randMax - 1
       Zeros(12) \o <<0, 1, Limb - 1, Limb - 7>>,          \* = randMax - 5 (mod randMax)
       Zeros(12) \o <<0, 0, Limb - 1, Limb - 1>>,          \* randMax itself
       Ones(16),                                           \* 2^256 - 1
       Mixed12 \o <<51966, 47806, 57005, 48879>>,
       Zeros(12) \o <<0, 1, 0, 0>>,                        \* 2^32
       Mixed12 \o <<0, 0, 0, 0>> >>

\* h.hexdigest() of blake2s over fID: a fixed digest per identity
blake2s_hexdigest(fID) ==
    LET r == IndexIn(Slides, fID[2])
        t == IF Len(fID) = 3 THEN IndexIn(Stems, fID[3]) ELSE 0
    IN  DigestTable[(((r - 1) * (Len(Stems) + 1) + t) % Len(DigestTable)) + 1]

Reverse(s) == [i \in 1 .. Len(s) |-> s[Len(s) + 1 - i]]

\* int(hexdigest, 16)
HexToInt(hex) == [neg |-> FALSE, mag |-> Trim(Reverse(hex))]

\* random_hash = h_int + randAdd + typeSeedAdd[artifactType]; random_hash % randMax
DeriveSeed(fID, randAdd, t) ==
    LET h_int == HexToInt(blake2s_hexdigest(fID))
        random_hash == IntAdd(IntAdd(h_int, randAdd), typeSeedAdd(t))
    IN  PyModRandMax(random_hash)

RandAdds == {-100000, -10, -1, 0, 1, 65530}
TypeInputs == ArtifactTypes \cup {"MARKER", "Tear", "blur"}
PerTileRands == {PyNone, PyBool(TRUE), PyBool(FALSE)}

\* os.path.splitext(fName)[-1]: the extension with its period, or the empty string
SplitExt(f) == IF f.ext = "" THEN <<>> ELSE <<".", f.ext>>

\* lines 848-849: ext as given, or the one of the input file
ExtOf(f, ext) == IF ext = None THEN SplitExt(f) ELSE <<ext[1]>>

\* line 881: artifactType[0:4]
OutputSuffix(t) ==
    CASE t = "marker" -> "mark" [] t = "fold" -> "fold" [] t = "sectioning" -> "sect"
      [] t = "illumination" -> "illu" [] t = "bubbles" -> "bubb" [] t = "stain" -> "stai"
      [] t = "tear" -> "tear"

\* line 883: "%s_%s.%s" % (fNameNoExt, outputSuffix, ext), as the pieces of the string
DefaultOutputName(f, t, ext) == <<f.stem, "_", OutputSuffix(t), ".">> \o ExtOf(f, ext)

\* lines 882-887: the name handed to outputIm.save; outputDir is looked at only when
\* no name was given
SaveName(f, t, ext, outputImName, outputDir) ==
    IF outputImName # None THEN <<outputImName[1]>>
    ELSE IF outputDir = None THEN DefaultOutputName(f, t, ext)
    ELSE <<outputDir[1], "/">> \o DefaultOutputName(f, t, ext)

\* lines 884-886: the directory made on the way
MadeDir(outputImName, outputDir) ==
    IF outputImName = None /\ outputDir # None THEN {outputDir[1]} ELSE {}

\* lines 851-856: the identity hashed
IdentityOf(f, t, perTileRand) ==
    IF (IF perTileRand = PyNone THEN typeTileRand(t) ELSE PyEq(perTileRand, 1))
    THEN TileID(f) ELSE SlideID(f)

\* the arguments of a call
AppArgs(f, t, randAdd, perTileRand, ext, outputImName, outputDir) ==
    [inputImName |-> f, artifactType |-> t, randAdd |-> randAdd,
     perTileRand |-> perTileRand, ext |-> ext, outputImName |-> outputImName,
     outputDir |-> outputDir]

\* lines 851-865 for a type that is no key of the two tables: typeTileRand[artifactType]
\* (line 852) or typeSeedAdd[artifactType] (line 864) raises KeyError
AppUnknownType == [pc |-> "KeyError", call |-> None, saved |-> None, dirs |-> {}]

\* lines 867-889 with the seed derived: the generator of the type is called with the
\* seed; ran is what it does on the image opened, "returned" or the error it raises,
\* and only after it has returned is the directory made and the image saved
AppDispatch(a, fID, random_seed, ran) ==
    [pc |-> ran, fID |-> fID, random_seed |-> random_seed,
     call |-> [fn |-> GeneratorOf(a.artifactType), random_seed |-> random_seed],
     saved |-> IF ran = "returned"
               THEN Some(SaveName(a.inputImName, a.artifactType, a.ext, a.outputImName,
                                  a.outputDir))
               ELSE None,
     dirs |-> IF ran = "returned" THEN MadeDir(a.outputImName, a.outputDir) ELSE {}]

\* lines 835-889
AppRun(a, ran) ==
    IF a.artifactType \notin ArtifactTypes THEN a @@ AppUnknownType
    ELSE a @@ AppDispatch(a, IdentityOf(a.inputImName, a.artifactType, a.perTileRand),
                          DeriveSeed(IdentityOf(a.inputImName, a.artifactType,
                                                a.perTileRand),
                                     a.randAdd, a.artifactType),
                          ran)

\* what a generator does when it is called: it returns an image or raises
GeneratorOutcomes == {"returned", "ValueError"}
GivenExts == {None, Some("png")}
GivenOutputNames == {None, Some("out.png")}
GivenOutputDirs == {None, Some("outdir")}

apply_artifact(f, typeIn, randAdd, perTileRand, ext, outputImName, outputDir, ran) ==
    /\ app.pc = "idle"          \* one call per run of the command line
    /\ app' = AppRun(AppArgs(f, Lower(typeIn), randAdd, perTileRand, ext, outputImName,
                             outputDir), ran)
    /\ UNCHANGED <<spl, ras, fold, cmp, rng, gen>>

InitIdle ==
    /\ app = Idle /\ spl = Idle /\ ras = Idle /\ fold = Idle /\ cmp = Idle
    /\ rng = Idle /\ gen = <<>>

\* the command line makes one call
NextSeed ==
    /\ app.pc = "idle"
    /\ \E f \in InputNames, typeIn \in TypeInputs, randAdd \in RandAdds,
          p \in PerTileRands,
          ext \in GivenExts, outputImName \in GivenOutputNames,
          outputDir \in GivenOutputDirs, ran \in GeneratorOutcomes :
           apply_artifact(f, typeIn, randAdd, p, ext, outputImName, outputDir, ran)

SpecSeed == InitIdle /\ [][NextSeed]_vars


(***************************************************************************)
(* rand_spline                                                             *)
(*                                                                         *)
(* Coordinates of sampled points are fixed-point numbers in units of       *)
(* 1/Scale pixel.                                                          *)
(***************************************************************************)
Scale == 10 ^ 3

RECURSIVE SqrtBisect(_, _, _)
\* floor(sqrt(n)), given lo^2 <= n < hi^2
SqrtBisect(n, lo, hi) ==
    IF hi - lo <= 1 THEN lo
    ELSE LET mid == (lo + hi) \div 2
         IN  IF mid * mid <= n THEN SqrtBisect(n, mid, hi) ELSE SqrtBisect(n, lo, mid)

ISqrt(n) == SqrtBisect(n, 0, 46340)

\* np.sqrt(np.sum(np.diff(inPts)**2)) for one segment, in fixed point
SegLen(p, q) ==
    ISqrt(((q[1] - p[1]) * (q[1] - p[1]) + (q[2] - p[2]) * (q[2] - p[2])) * Scale * Scale)

RECURSIVE CumDist(_, _)
\* cdXY[1 .. i]: the cumulative arc length at handle point i, in fixed point
CumDist(inPts, i) ==
    IF i = 1 THEN 0 ELSE CumDist(inPts, i - 1) + SegLen(inPts[i - 1], inPts[i])

Min(a, b) == IF a < b THEN a ELSE b
Max(a, b) == IF a > b THEN a ELSE b

\* pchip_interpolate on one coordinate between the knots (cd0, a) and (cd1, b), at
\* arc length u, cd0 <= u <= cd1: the knot values at the knots; between two knots the
\* interpolant is monotone, so the value lies strictly between a and b when they
\* differ and is a when they are equal.  Its place between them is taken from the
\* chord.
PchipBetween(a, b, cd0, cd1, u) ==
    IF u = cd0 THEN a * Scale
    ELSE IF u = cd1 THEN b * Scale
    ELSE IF a = b THEN a * Scale
    ELSE LET lin == a * Scale + ((b - a) * Scale * (u - cd0)) \div (cd1 - cd0)
         IN  Max(Min(a, b) * Scale + 1, Min(lin, Max(a, b) * Scale - 1))

\* the sample at arc length t (an integer number of pixels)
SampleAt(inPts, t) ==
    LET n == Len(inPts)
        u == t * Scale
        k == CHOOSE i \in 1 .. n - 1 :
                 /\ CumDist(inPts, i) <= u
                 /\ u <= CumDist(inPts, i + 1)
                 /\ \A j \in 1 .. i - 1 : CumDist(inPts, j + 1) < u
        cd0 == CumDist(inPts, k)
        cd1 == CumDist(inPts, k + 1)
    IN  <<PchipBetween(inPts[k][1], inPts[k + 1][1], cd0, cd1, u),
          PchipBetween(inPts[k][2], inPts[k + 1][2], cd0, cd1, u)>>

\* cdXY is strictly increasing: what pchip_interpolate requires of its x argument
StrictlyIncreasing(inPts) ==
    \A i \in 1 .. Len(inPts) - 1 : inPts[i] # inPts[i + 1]

\* lines 78-82: the path sampled at iDist = 0, 1, ..., floor(cdXY[-1])
SamplePath(inPts) ==
    LET last == CumDist(inPts, Len(inPts)) \div Scale
    IN  [i \in 1 .. last + 1 |-> SampleAt(inPts, i - 1)]

\* inPts[i, c] = val
SetCoord(inPts, i, c, val) == [inPts EXCEPT ![i][c] = val]

\* a faulty variant of PinToEdge: the two index computations are swapped
PinToEdgeSwapped(inPts, i, edgeNum, dim) ==
    LET LR_v_TB == edgeNum \div 2
        LT_V_RB == edgeNum % 2
    IN  SetCoord(inPts, i, LR_v_TB + 1, LT_V_RB * (dim[LR_v_TB + 1] - 1))

\* lines 55-58 and 68-71: put handle point i on edge edgeNum
PinToEdge(inPts, i, edgeNum, dim) ==
    LET LR_v_TB == edgeNum % 2      \* left/right vs top/bottom
        LT_V_RB == edgeNum \div 2   \* left/top vs right/bottom
    IN  SetCoord(inPts, i, LR_v_TB + 1, LT_V_RB * (dim[LR_v_TB + 1] - 1))

\* line 49
StartEdgeFlag(startEdge) == PyEq(startEdge, 1) \/ PyInRange(startEdge, 0, 4)
\* line 51: the edge is taken from the argument
StartEdgeGiven(startEdge) == PyInRange(startEdge, 0, 4) /\ startEdge.t # "bool"
\* line 59
EndEdgeFlag(startEdge, endEdge) ==
    \/ PyEq(endEdge, 1)
    \/ PyInRange(endEdge, 0, 4)
    \/ (PyInRange(endEdge, -4, 0) /\ StartEdgeFlag(startEdge))
\* line 66: the edge is drawn with np.random.randint(4)
EndEdgeDrawn(startEdge, endEdge) ==
    /\ EndEdgeFlag(startEdge, endEdge)
    /\ ~PyInRange(endEdge, 0, 4)
    /\ ~(PyInRange(endEdge, -4, 0) /\ StartEdgeFlag(startEdge))

\* a faulty variant of RelativeEdge: the steps are taken the other way round
RelativeEdgeMirrored(endEdge, edgeNum) == (edgeNum - endEdge + 4) % 4

\* line 65: the end edge relative to the start edge
RelativeEdge(endEdge, edgeNum) == (endEdge + edgeNum + 4) % 4

\* lines 44-71: the handle points rand_spline generates.  draws holds what
\* np.random returns: xs, ys (the two randint columns), e1 and e2 (the randint(4) of
\* the start and of the end edge, read only where the code draws them).
GenPts(dim, nPts, startEdge, endEdge, draws) ==
    LET pts0 == [i \in 1 .. nPts |-> <<draws.xs[i], draws.ys[i]>>]
        edge1 == IF StartEdgeGiven(startEdge) THEN startEdge.v ELSE draws.e1
        pts1 == IF StartEdgeFlag(startEdge) THEN PinToEdge(pts0, 1, edge1, dim) ELSE pts0
        edge2 == IF PyInRange(endEdge, 0, 4) THEN endEdge.v
                 ELSE IF PyInRange(endEdge, -4, 0) /\ StartEdgeFlag(startEdge)
                 THEN RelativeEdge(endEdge.v, edge1)
                 ELSE draws.e2
    IN  IF EndEdgeFlag(startEdge, endEdge) THEN PinToEdge(pts1, nPts, edge2, dim) ELSE pts1

\* the index errors of lines 58 and 71: a pinned point that does not exist
PinIndexError(nPts, startEdge, endEdge) ==
    nPts = 0 /\ (StartEdgeFlag(startEdge) \/ EndEdgeFlag(startEdge, endEdge))

\* the frame rand_spline leaves: the handle points used and the path returned, or
\* the error raised
SplineFrame(dim, inPtsArg, nPts, startEdge, endEdge, draws) ==
    LET args == [dim |-> dim, inPtsArg |-> inPtsArg, nPts |-> nPts,
                 startEdge |-> startEdge, endEdge |-> endEdge, draws |-> draws]
    IN  IF inPtsArg = None /\ PinIndexError(nPts, startEdge, endEdge)
        THEN [pc |-> "IndexError", args |-> args]
        ELSE LET inPts == IF inPtsArg = None
                          THEN GenPts(dim, nPts, startEdge, endEdge, draws)
                          ELSE inPtsArg[1]
             IN  IF Len(inPts) < 2 \/ ~StrictlyIncreasing(inPts)
                 THEN [pc |-> "ValueError", args |-> args, inPts |-> inPts]
                 ELSE [pc |-> "returned", args |-> args, inPts |-> inPts,
                       splXY |-> SamplePath(inPts)]

MaxDim == 3
Dims == (2 .. MaxDim) \X (2 .. MaxDim)
NPtsArgs == {0, 1, 2, 3}
StartEdgeArgs == {PyBool(TRUE), PyBool(FALSE), PyNone} \cup {PyInt(k) : k \in 0 .. 3}
EndEdgeArgs == {PyBool(TRUE), PyBool(FALSE)} \cup {PyInt(k) : k \in -4 .. 3}
NoDraw == 0

\* what np.random can return to a call that generates nPts handle points
SplineDraws(dim, nPts, startEdge, endEdge) ==
    [xs : [1 .. nPts -> 0 .. dim[1] - 2],       \* np.random.randint(dim[0]-1)
     ys : [1 .. nPts -> 0 .. dim[2] - 2],       \* np.random.randint(dim[1]-1)
     e1 : IF StartEdgeFlag(startEdge) /\ ~StartEdgeGiven(startEdge)
          THEN 0 .. 3 ELSE {NoDraw},
     e2 : IF EndEdgeDrawn(startEdge, endEdge) THEN 0 .. 3 ELSE {NoDraw}]

\* rand_spline(dim, nPts = nPts, startEdge = startEdge, endEdge = endEdge)
rand_spline(dim, nPts, startEdge, endEdge) ==
    /\ spl.pc = "idle"
    /\ \E draws \in SplineDraws(dim, nPts, startEdge, endEdge) :
           spl' = SplineFrame(dim, None, nPts, startEdge, endEdge, draws)
    /\ UNCHANGED <<app, ras, fold, cmp, rng, gen>>

\* handle points a caller supplies: none, one, two and three rows
GivenInPts == {<<>>, <<<<1, 1>>>>, <<<<0, 0>>, <<1, 1>>>>, <<<<0, 1>>, <<1, 1>>, <<1, 0>>>>}

\* rand_spline(dim, inPts = inPts, nPts = nPts, startEdge = startEdge,
\* endEdge = endEdge): nothing is drawn, lines 73-76
rand_spline_inPts(dim, inPts, nPts, startEdge, endEdge) ==
    /\ spl.pc = "idle"
    /\ spl' = SplineFrame(dim, Some(inPts), nPts, startEdge, endEdge,
                          [xs |-> <<>>, ys |-> <<>>, e1 |-> NoDraw, e2 |-> NoDraw])
    /\ UNCHANGED <<app, ras, fold, cmp, rng, gen>>

NextSpline ==
    \E dim \in Dims, nPts \in NPtsArgs, s \in StartEdgeArgs, e \in EndEdgeArgs :
        \/ rand_spline(dim, nPts, s, e)
        \/ \E inPts \in GivenInPts : rand_spline_inPts(dim, inPts, nPts, s, e)

SpecSpline == InitIdle /\ [][NextSpline]_vars

(***************************************************************************)
(* Rasters: masks, distance maps, regions and compositing                  *)
(*                                                                         *)
(* A raster over an image of size dim = <<width, height>> is a function    *)
(* of the pixels <<x, y>>; numpy indexes it [y, x].  An image maps a pixel *)
(* to its <<r, g, b>>.                                                     *)
(***************************************************************************)
Pix(dim) == (0 .. dim[1] - 1) \X (0 .. dim[2] - 1)

\* np.round of a fixed-point number: to the nearest integer, a half to the even one
NpRound(v) ==
    LET q == v \div Scale
        r == v % Scale
    IN  IF 2 * r < Scale THEN q
        ELSE IF 2 * r > Scale THEN q + 1
        ELSE IF q % 2 = 0 THEN q ELSE q + 1

\* astype(int) of a fixed-point number: truncation towards zero
AsInt(v) == IF v >= 0 THEN v \div Scale ELSE -((-v) \div Scale)

\* numpy's index i on an axis of length n: a negative index counts from the end
IndexOk(i, n) == -n <= i /\ i < n
NpIndex(i, n) == IF i < 0 THEN i + n ELSE i

\* the pixels that mask[ys, xs] = 0 clears, for the integer indices idx[k] = <<x, y>>
ZeroSet(idx, dim) ==
    {<<NpIndex(idx[k][1], dim[1]), NpIndex(idx[k][2], dim[2])>> : k \in DOMAIN idx}

IndicesOk(idx, dim) ==
    \A k \in DOMAIN idx : IndexOk(idx[k][1], dim[1]) /\ IndexOk(idx[k][2], dim[2])

SetMin(S) == CHOOSE m \in S : \A n \in S : m <= n

\* morphology.distance_transform_edt(mask), squared: the squared Euclidean distance
\* of pixel p to the nearest cleared pixel
Dist2(p, zeros) ==
    SetMin({(p[1] - z[1]) * (p[1] - z[1]) + (p[2] - z[2]) * (p[2] - z[2]) : z \in zeros})

\* a faulty variant of WithinHalfWidth: the full width as the threshold
WithinFullWidth(d2, width) == width >= 0 /\ d2 <= width * width

\* bwDist <= width/2, for bwDist = sqrt(d2)
WithinHalfWidth(d2, width) == width >= 0 /\ 4 * d2 <= width * width

\* alpha is the fraction a / AlphaDen
AlphaDen == 4

\* a faulty variant of AlphaByte: rounded to nearest instead of truncated
AlphaByteRounded(inRegion, a) ==
    IF inRegion THEN (2 * a * 255 + AlphaDen) \div (2 * AlphaDen) ELSE 0

\* (bwReg*alpha*255).astype(np.uint8) at one pixel
AlphaByte(inRegion, a) == IF inRegion THEN (a * 255) \div AlphaDen ELSE 0

\* PIL's blend of one channel through an 8-bit mask value m: base where m = 0, the
\* layer where m = 255, in between (base * (255 - m) + layer * m) / 255 rounded
Blend8(m, base, layer) ==
    LET tmp == base * (255 - m) + layer * m + 128
    IN  ((tmp \div 256) + tmp) \div 256

\* Image.composite(color_layer, base, alpha_mask)
Composite(color_layer, base, alpha_mask, dim) ==
    [p \in Pix(dim) |->
        [c \in 1 .. 3 |-> Blend8(alpha_mask[p], base[p][c], color_layer[p][c])]]

\* the input images: a uniform gray one and one whose pixels all differ
GrayIm(dim) == [p \in Pix(dim) |-> <<128, 128, 128>>]
RampIm(dim) == [p \in Pix(dim) |-> <<40 * p[1], 60 * p[2] + 7, 255 - 30 * p[1] - p[2]>>]
InputIms(dim) == {GrayIm(dim), RampIm(dim)}

(***************************************************************************)
(* add_marker                                                              *)
(***************************************************************************)
\* lines 204-205: the pixels of the rounded path
MarkerIdx(sampSpl) == [k \in DOMAIN sampSpl |-> <<NpRound(sampSpl[k][1]), NpRound(sampSpl[k][2])>>]

\* lines 204-210: the fixed-width region around the path
MarkerRegion(sampSpl, width, dim) ==
    LET zeros == ZeroSet(MarkerIdx(sampSpl), dim)
    IN  {p \in Pix(dim) : WithinHalfWidth(Dist2(p, zeros), width)}

\* lines 211-221
MarkerFrame(inputIm, dim, sp, width, a, rgbVal, args) ==
    IF sp.pc # "returned"
    THEN [pc |-> sp.pc, fn |-> "add_marker", args |-> args]
    ELSE IF ~IndicesOk(MarkerIdx(sp.splXY), dim)
    THEN [pc |-> "IndexError", fn |-> "add_marker", args |-> args, sampSpl |-> sp.splXY]
    ELSE LET bwReg == MarkerRegion(sp.splXY, width, dim)
             alpha_mask == [p \in Pix(dim) |-> AlphaByte(p \in bwReg, a)]
             color_layer == [p \in Pix(dim) |-> rgbVal]
         IN  [pc |-> "returned", fn |-> "add_marker", args |-> args,
              sampSpl |-> sp.splXY,
              zeros |-> ZeroSet(MarkerIdx(sp.splXY), dim),
              bwReg |-> bwReg, alpha_mask |-> alpha_mask, color_layer |-> color_layer,
              comp_im |-> Composite(color_layer, inputIm, alpha_mask, dim)]

RasterDims == {<<3, 3>>, <<2, 3>>}
MaxWidth == 3
Widths == 0 .. MaxWidth
Alphas == 0 .. AlphaDen
\* rgbVal as drawn from rgbRange = [[0,50],[0,50],[0,100]], and as given by a caller
RgbDrawn == {<<49, 49, 99>>}
RgbGiven == {<<255, 0, 16>>}
MarkerNPts == {2, 3}

\* add_marker(inputIm, nPts = nPts, width = width, alpha = a / AlphaDen, rgbVal = rgbArg)
add_marker(dim, inputIm, nPts, width, a, rgbArg) ==
    /\ ras.pc = "idle"
    /\ \E rgbVal \in (IF rgbArg = None THEN RgbDrawn ELSE {rgbArg[1]}),
          draws \in SplineDraws(dim, nPts, PyBool(TRUE), PyBool(TRUE)) :
           ras' = MarkerFrame(inputIm, dim,
                              SplineFrame(dim, None, nPts, PyBool(TRUE), PyBool(TRUE), draws),
                              width, a, rgbVal,
                              [inputIm |-> inputIm, dim |-> dim, nPts |-> nPts,
                               width |-> width, alpha |-> a, rgbVal |-> rgbArg])
    /\ UNCHANGED <<app, spl, fold, cmp, rng, gen>>

(***************************************************************************)
(* add_bubbles                                                             *)
(*                                                                         *)
(* rand_gauss sums Gaussian densities; its result is a field of reals that *)
(* the model draws, in units of 1/FieldUnit, from the values around the    *)
(* threshold sumMap >= 1.                                                  *)
(***************************************************************************)
FieldUnit == 2
FieldVals == {FieldUnit - 1, FieldUnit}

\* np.mean(np.array(inputIm), axis=(0,1))[c] * mult, truncated by np.uint8; mult is
\* the fraction num / den
MeanColorTimes(inputIm, dim, c, num, den) ==
    LET RECURSIVE Sum(_)
        Sum(S) == IF S = {} THEN 0
                  ELSE LET p == CHOOSE q \in S : TRUE IN inputIm[p][c] + Sum(S \ {p})
    IN  (Sum(Pix(dim)) * num) \div (Cardinality(Pix(dim)) * den)

\* line 462: the pixels of the region within edgeWidth of the background.  With no
\* background pixel the distance map is not defined by the pixels of the region;
\* unspecified marks that case.
BubbleEdgeArea(bwReg, edgeWidth, dim) ==
    LET bg == Pix(dim) \ bwReg
    IN  {p \in bwReg : Dist2(p, bg) <= edgeWidth * edgeWidth}

\* lines 460-475
BubblesFrame(inputIm, dim, sumMap, a, edgeWidth, rgbVal, edgeArea, args) ==
    LET bwReg == {p \in Pix(dim) : sumMap[p] >= FieldUnit}
        alphaMask == [p \in Pix(dim) |-> AlphaByte(p \in bwReg, a)]
        edgeColor == [c \in 1 .. 3 |-> MeanColorTimes(inputIm, dim, c, 3, 4)]
        color_layer == [p \in Pix(dim) |-> IF p \in edgeArea THEN edgeColor ELSE rgbVal]
    IN  [pc |-> "returned", fn |-> "add_bubbles", args |-> args,
         bwReg |-> bwReg, alpha_mask |-> alphaMask, color_layer |-> color_layer,
         comp_im |-> Composite(color_layer, inputIm, alphaMask, dim)]

EdgeWidths == {0, 2}
BubbleRgb == <<225, 225, 225>>

\* add_bubbles(inputIm, alpha = a / AlphaDen, edgeWidth = edgeWidth)
add_bubbles(dim, inputIm, a, edgeWidth) ==
    /\ ras.pc = "idle"
    /\ \E sumMap \in [Pix(dim) -> FieldVals] :
           LET bwReg == {p \in Pix(dim) : sumMap[p] >= FieldUnit}
           IN  \E edgeArea \in (IF bwReg = Pix(dim) THEN {{}, Pix(dim)}
                                ELSE {BubbleEdgeArea(bwReg, edgeWidth, dim)}) :
                   ras' = BubblesFrame(inputIm, dim, sumMap, a, edgeWidth, BubbleRgb, edgeArea,
                                       [inputIm |-> inputIm, dim |-> dim, alpha |-> a,
                                        edgeWidth |-> edgeWidth, rgbVal |-> Some(BubbleRgb)])
    /\ UNCHANGED <<app, spl, fold, cmp, rng, gen>>

NextRaster ==
    \E dim \in RasterDims :
        \E inputIm \in InputIms(dim), a \in Alphas :
            \/ \E nPts \in MarkerNPts, width \in Widths,
                  rgbArg \in {Some(c) : c \in RgbGiven} \cup {None} :
                   add_marker(dim, inputIm, nPts, width, a, rgbArg)
            \/ \E edgeWidth \in EdgeWidths :
                   add_bubbles(dim, inputIm, a, edgeWidth)

SpecRaster == InitIdle /\ [][NextRaster]_vars

(***************************************************************************)
(* np.random                                                               *)
(*                                                                         *)
(* np.random.seed(s) puts the Mersenne Twister at the start of the stream  *)
(* of 32-bit words of s.  A stream is a finite cycle of words; a word is   *)
(* held as its top bits (top, of TopDen values) and its low three bits     *)
(* (low), the bits in between being 0.                                     *)
(***************************************************************************)
TopDen == 4
Word(top, low) == [top |-> top, low |-> low]

\* the word read after pos words have been consumed
WordAt(st, pos) == st[(pos % Len(st)) + 1]

RECURSIVE MaskOf(_, _)
\* the smallest 2^k - 1 >= span, starting from m = 2^j - 1
MaskOf(span, m) == IF m >= span THEN m ELSE MaskOf(span, 2 * m + 1)

\* word & mask, for a mask 2^k - 1 below the top bits
Masked(w, mask) == IF mask >= 7 THEN w.low ELSE w.low % (mask + 1)

RECURSIVE FirstAccepted(_, _, _, _)
\* masked rejection sampling: the position of the first word from pos on whose
\* masked value is at most span
FirstAccepted(st, pos, mask, span) ==
    IF Masked(WordAt(st, pos), mask) <= span THEN pos
    ELSE FirstAccepted(st, pos + 1, mask, span)

\* np.random.randint(low, high) for low < high, reading from pos: the value drawn
\* and the position after it.  A range of one value consumes no word.
RandintOne(st, pos, low, high) ==
    LET span == high - low - 1
    IN  IF span = 0 THEN [v |-> low, pos |-> pos]
        ELSE LET i == FirstAccepted(st, pos, MaskOf(span, 1), span)
             IN  [v |-> low + Masked(WordAt(st, i), MaskOf(span, 1)), pos |-> i + 1]

RECURSIVE RandintFill(_, _, _, _, _, _)
RandintFill(st, pos, low, high, n, acc) ==
    IF n = 0 THEN [vs |-> acc, pos |-> pos]
    ELSE LET d == RandintOne(st, pos, low, high)
         IN  RandintFill(st, d.pos, low, high, n - 1, Append(acc, d.v))

\* np.random.randint(low, high, size = n): n values in order
RandintSeq(st, pos, low, high, n) == RandintFill(st, pos, low, high, n, <<>>)

\* np.random.random_sample(size = n): each value takes two words and is
\* (a * 2^26 + b) / 2^53 for a = first >> 5, b = second >> 6; it is held as the
\* numerator us[k] of us[k] / TopDen, which the second word moves by less than 2^-28
UniformSeq(st, pos, n) ==
    [us |-> [k \in 1 .. n |-> WordAt(st, pos + 2 * (k - 1)).top], pos |-> pos + 2 * n]

\* the draws of rand_spline (lines 45-46, 54, 67) read from position pos of the
\* stream, and the position they leave the stream at
SplineDrawsAt(dim, nPts, startEdge, endEdge, st, pos) ==
    LET xs == RandintSeq(st, pos, 0, dim[1] - 1, nPts)
        ys == RandintSeq(st, xs.pos, 0, dim[2] - 1, nPts)
        e1 == IF StartEdgeFlag(startEdge) /\ ~StartEdgeGiven(startEdge)
              THEN RandintOne(st, ys.pos, 0, 4) ELSE [v |-> NoDraw, pos |-> ys.pos]
        e2 == IF EndEdgeDrawn(startEdge, endEdge)
              THEN RandintOne(st, e1.pos, 0, 4) ELSE [v |-> NoDraw, pos |-> e1.pos]
    IN  [draws |-> [xs |-> xs.vs, ys |-> ys.vs, e1 |-> e1.v, e2 |-> e2.v], pos |-> e2.pos]

\* the same after the np.random.seed of line 41: read from the start of the stream
SplineStreamDraws(dim, nPts, startEdge, endEdge, st) ==
    SplineDrawsAt(dim, nPts, startEdge, endEdge, st, 0)

\* rand_spline(dim, nPts = nPts, startEdge = .., endEdge = .., random_seed = seed)
\* for the seed whose stream is st
SplineOfStream(dim, nPts, startEdge, endEdge, st) ==
    SplineFrame(dim, None, nPts, startEdge, endEdge,
                SplineStreamDraws(dim, nPts, startEdge, endEdge, st).draws)

(***************************************************************************)
(* The regions of add_marker and add_sectioning                            *)
(***************************************************************************)
\* morphology.distance_transform_edt(mask) at p, in fixed point
DistAt(p, zeros) == ISqrt(Dist2(p, zeros) * Scale * Scale)

\* cv2's BORDER_REFLECT_101 (the default border of blur): index i on an axis of
\* length n
Reflect101(i, n) ==
    IF n = 1 THEN 0
    ELSE LET j == i % (2 * n - 2)
         IN  IF j >= n THEN 2 * n - 2 - j ELSE j

\* the place of pixel p in an array of shape invDim filled in row order, and back
RowOrder(p, dim) == p[2] * dim[1] + p[1] + 1
PixAt(k, dim) == <<(k - 1) % dim[1], (k - 1) \div dim[1]>>

RECURSIVE BlurSum(_, _, _, _)
\* the sum of the first k taps of the 5 x 5 window around p, the taps counted in
\* row order
BlurSum(field, p, dim, k) ==
    IF k = 0 THEN 0
    ELSE field[RowOrder(<<Reflect101(p[1] + ((k - 1) % 5) - 2, dim[1]),
                          Reflect101(p[2] + ((k - 1) \div 5) - 2, dim[2])>>, dim)]
             + BlurSum(field, p, dim, k - 1)

\* 25 * blur(field, (5,5)) at p, for an array in row order: the sum of the 5 x 5
\* window around p
Blur25(field, p, dim) == BlurSum(field, p, dim, 25)

RECURSIVE DistFill(_, _, _)
DistFill(zeros, dim, k) ==
    IF k = 0 THEN <<>>
    ELSE Append(DistFill(zeros, dim, k - 1), DistAt(PixAt(k, dim), zeros))

\* morphology.distance_transform_edt(mask) as an array in row order, in fixed point
DistField(zeros, dim) == DistFill(zeros, dim, dim[1] * dim[2])

\* line 402: the pixels of the truncated path
SectioningIdx(sampSpl) == [k \in DOMAIN sampSpl |-> <<AsInt(sampSpl[k][1]), AsInt(sampSpl[k][2])>>]

\* a faulty variant of SectioningRegion: the jitter is applied whatever randEdge is
SectioningRegionJittered(dim, sampSpl, width, randEdge, st, pos) ==
    IF ~IndicesOk(SectioningIdx(sampSpl), dim) THEN [pc |-> "IndexError"]
    ELSE LET zeros == ZeroSet(SectioningIdx(sampSpl), dim)
             half == IF width >= 0 THEN width \div 2 ELSE -((-width) \div 2)
         IN  IF -half >= half THEN [pc |-> "ValueError", zeros |-> zeros]
             ELSE LET distRand == RandintSeq(st, pos, -half, half, dim[1] * dim[2]).vs
                      bw_dist == DistField(zeros, dim)
                      noisy == [k \in DOMAIN bw_dist |-> bw_dist[k] + distRand[k] * Scale]
                  IN  [pc |-> "returned", zeros |-> zeros, distRand |-> distRand,
                       pos |-> RandintSeq(st, pos, -half, half, dim[1] * dim[2]).pos,
                       bwReg |-> {p \in Pix(dim) :
                                     2 * Blur25(noisy, p, dim) <= 25 * width * Scale}]

\* lines 401-409 for a sampled path: the region, or the error raised.  width is an
\* integer; pos is where the stream stands after the path was made.
SectioningRegion(dim, sampSpl, width, randEdge, st, pos) ==
    IF ~IndicesOk(SectioningIdx(sampSpl), dim) THEN [pc |-> "IndexError"]
    ELSE LET zeros == ZeroSet(SectioningIdx(sampSpl), dim)
             half == IF width >= 0 THEN width \div 2 ELSE -((-width) \div 2)
         IN  IF ~randEdge
             THEN [pc |-> "returned", zeros |-> zeros, distRand |-> <<>>, pos |-> pos,
                   bwReg |-> {p \in Pix(dim) : WithinHalfWidth(Dist2(p, zeros), width)}]
             ELSE IF -half >= half THEN [pc |-> "ValueError", zeros |-> zeros]
             ELSE LET distRand == RandintSeq(st, pos, -half, half, dim[1] * dim[2]).vs
                      bw_dist == DistField(zeros, dim)
                      noisy == [k \in DOMAIN bw_dist |-> bw_dist[k] + distRand[k] * Scale]
                  IN  [pc |-> "returned", zeros |-> zeros, distRand |-> distRand,
                       pos |-> RandintSeq(st, pos, -half, half, dim[1] * dim[2]).pos,
                       bwReg |-> {p \in Pix(dim) :
                                     2 * Blur25(noisy, p, dim) <= 25 * width * Scale}]

\* the path of add_sectioning, lines 395-399, when sampSpl is not given: without inPts
\* the defaults of rand_spline apply, with inPts the caller's nPts and endEdge
SectioningPath(dim, inPtsArg, nPts, endEdge, st) ==
    IF inPtsArg = None
    THEN [sp |-> SplineOfStream(dim, 5, PyBool(TRUE), PyBool(TRUE), st),
          pos |-> SplineStreamDraws(dim, 5, PyBool(TRUE), PyBool(TRUE), st).pos]
    ELSE [sp |-> SplineOfStream(dim, nPts, PyBool(TRUE), endEdge, st),
          pos |-> SplineStreamDraws(dim, nPts, PyBool(TRUE), endEdge, st).pos]

\* the region stage of add_sectioning(inputIm, width, randEdge, inPts, nPts,
\* endEdge, random_seed = seed) for the seed whose stream is st
SectioningRegionOf(dim, width, randEdge, inPtsArg, nPts, endEdge, st) ==
    LET path == SectioningPath(dim, inPtsArg, nPts, endEdge, st)
    IN  IF path.sp.pc # "returned" THEN [pc |-> path.sp.pc]
        ELSE SectioningRegion(dim, path.sp.splXY, width, randEdge, st, path.pos)

\* the region stage of add_marker(inputIm, nPts, width, random_seed = seed): the
\* colour draws come first, then rand_spline seeds again
MarkerRegionOf(dim, width, nPts, st) ==
    LET sp == SplineOfStream(dim, nPts, PyBool(TRUE), PyBool(TRUE), st)
    IN  IF sp.pc # "returned" THEN [pc |-> sp.pc]
        ELSE IF ~IndicesOk(MarkerIdx(sp.splXY), dim) THEN [pc |-> "IndexError"]
        ELSE [pc |-> "returned", zeros |-> ZeroSet(MarkerIdx(sp.splXY), dim),
              bwReg |-> MarkerRegion(sp.splXY, width, dim)]

(***************************************************************************)
(* add_tear                                                                *)
(*                                                                         *)
(* ptRadius is the fraction rn / RadDen.  Factors and densities are given  *)
(* in percent and as <<numerator, denominator>>.  Tear points are held in  *)
(* units of 1/PtDen pixel.                                                 *)
(***************************************************************************)
RadDen == 4
PtDen == Scale * 100 * TopDen * TopDen

\* np.round(num / den), den > 0: to the nearest integer, a half to the even one
RoundHalfEven(num, den) ==
    LET q == num \div den
        r == num % den
    IN  IF 2 * r < den THEN q
        ELSE IF 2 * r > den THEN q + 1
        ELSE IF q % 2 = 0 THEN q ELSE q + 1

\* np.ceil(a / b), b > 0
CeilDiv(a, b) == -((-a) \div b)

RECURSIVE PrefixSum(_, _)
PrefixSum(s, k) == IF k = 0 THEN 0 ELSE PrefixSum(s, k - 1) + s[k]

\* lines 706, 719: cdTS before trimming, np.round(np.cumsum(tearSpacing)), for the
\* uniform numerators us
TearCumSpacing(a, us) ==
    [k \in DOMAIN us |->
        RoundHalfEven(k * a.minSpacing * TopDen + (a.maxSpacing - a.minSpacing) * PrefixSum(us, k),
                      TopDen)]

\* a faulty variant of TearSpanEnd: an end below the path is left where it is
TearSpanEndNoFloor(f, u, splLen) ==
    LET raw == RoundHalfEven((f[1] * TopDen + (f[2] - f[1]) * u) * splLen, 100 * TopDen)
    IN  IF raw > splLen THEN splLen ELSE raw

\* lines 712-718: one end of the trimmed span, from the factor range f (in percent)
\* and the uniform numerator u
TearSpanEnd(f, u, splLen) ==
    LET raw == RoundHalfEven((f[1] * TopDen + (f[2] - f[1]) * u) * splLen, 100 * TopDen)
    IN  IF raw > splLen THEN splLen ELSE IF raw < 0 THEN 0 ELSE raw

\* line 733 with lines 739-740: np.ceil(tearDensity * d) for the density d = <<num,
\* den>>, inLineMax = il / TopDen, perpMax = pm / TopDen and ptRadius = rn / RadDen;
\* pi is taken as 355 / 113
DensityCount(il, pm, rn, d) ==
    CeilDiv(il * pm * RadDen * RadDen * d[1] * 113, TopDen * TopDen * rn * rn * d[2] * 355)

RECURSIVE TearCountColumns(_, _, _, _, _, _, _, _)
\* lines 738-741: one more column of tearCts per density, each of nTears draws; acc
\* holds the columns so far, the first being that of line 737.  ok is false when a
\* range is empty (ValueError).
TearCountColumns(st, pos, a, il, pm, rn, nTears, acc) ==
    IF Len(acc) = 1 + Len(a.minDensity) THEN [ok |-> TRUE, cols |-> acc, pos |-> pos]
    ELSE LET lo == DensityCount(il, pm, rn, a.minDensity[Len(acc)])
             hi == DensityCount(il, pm, rn, a.maxDensity[Len(acc)])
         IN  IF lo >= hi THEN [ok |-> FALSE, cols |-> acc, pos |-> pos]
             ELSE LET col == RandintSeq(st, pos, lo, hi, nTears)
                  IN  TearCountColumns(st, col.pos, a, il, pm, rn, nTears,
                                       Append(acc, col.vs))

\* the point cent + inLine * der + perp * (der_y, -der_x), lines 760-763; cent in
\* units of 1/PtDen, der in fixed point, the factors as numerators over
\* 100 * TopDen * TopDen
TearPoint(cent, der, inLine, perp) ==
    <<cent[1] + inLine * der[1] + perp * der[2],
      cent[2] + inLine * der[2] - perp * der[1]>>

\* np.random.uniform(percs[0, layer] * dMax, percs[1, layer] * dMax) for the uniform
\* numerator u and dMax = dm / TopDen, as a numerator over 100 * TopDen * TopDen
TearFactor(percs, layer, dm, u) ==
    percs[1][layer] * dm * TopDen + (percs[2][layer] - percs[1][layer]) * dm * u

\* a faulty variant of TearLayer: every layer starts from the tear centre
TearLayerFromCentre(st, pos, a, il, pm, layer, nTPts, prev, cent, der) ==
    IF layer > 1 /\ Len(prev) = 0 THEN [ok |-> FALSE, pos |-> pos]
    ELSE LET centIdxs == IF layer = 1 THEN [vs |-> [k \in 1 .. nTPts |-> 0], pos |-> pos]
                         ELSE RandintSeq(st, pos, 0, Len(prev), nTPts)
             inLine == UniformSeq(st, centIdxs.pos, nTPts)
             perp == UniformSeq(st, inLine.pos, nTPts)
         IN  [ok |-> TRUE, pos |-> perp.pos,
              parents |-> centIdxs.vs,
              pts |-> [k \in 1 .. nTPts |->
                          TearPoint(cent, der,
                                    TearFactor(a.inLinePercs, layer, il, inLine.us[k]),
                                    TearFactor(a.perpPercs, layer, pm, perp.us[k]))]]

\* lines 752-764: the points of one layer of one tear centre.  prev holds the points
\* of the layer before (of the same centre); parents are indices into it.
TearLayer(st, pos, a, il, pm, layer, nTPts, prev, cent, der) ==
    IF layer > 1 /\ Len(prev) = 0 THEN [ok |-> FALSE, pos |-> pos]
    ELSE LET centIdxs == IF layer = 1 THEN [vs |-> [k \in 1 .. nTPts |-> 0], pos |-> pos]
                         ELSE RandintSeq(st, pos, 0, Len(prev), nTPts)
             inLine == UniformSeq(st, centIdxs.pos, nTPts)
             perp == UniformSeq(st, inLine.pos, nTPts)
         IN  [ok |-> TRUE, pos |-> perp.pos,
              parents |-> centIdxs.vs,
              pts |-> [k \in 1 .. nTPts |->
                          TearPoint(IF layer = 1 THEN cent ELSE prev[centIdxs.vs[k] + 1], der,
                                    TearFactor(a.inLinePercs, layer, il, inLine.us[k]),
                                    TearFactor(a.perpPercs, layer, pm, perp.us[k]))]]

RECURSIVE TearLayers(_, _, _, _, _, _, _, _, _)
\* lines 750-764: the layers of one tear centre, in order, each built off the last;
\* cts holds the point counts of the layers, acc the layers built so far
TearLayers(st, pos, a, il, pm, cts, cent, der, acc) ==
    IF Len(acc) = Len(cts) THEN [ok |-> TRUE, layers |-> acc, pos |-> pos]
    ELSE LET layer == Len(acc) + 1
             l == TearLayer(st, pos, a, il, pm, layer, cts[layer],
                            IF layer = 1 THEN <<>> ELSE acc[layer - 1].pts, cent, der)
         IN  IF ~l.ok THEN [ok |-> FALSE, layers |-> acc, pos |-> l.pos]
             ELSE TearLayers(st, l.pos, a, il, pm, cts, cent, der,
                             Append(acc, [pts |-> l.pts, parents |-> l.parents]))

RECURSIVE TearMats(_, _, _, _, _, _, _, _, _)
\* lines 748-766: layerMats, the layers of every tear centre in the order of cdTS
TearMats(st, pos, a, il, pm, tearCts, tearCents, tearDer, acc) ==
    IF Len(acc) = Len(tearCents) THEN [ok |-> TRUE, mats |-> acc, pos |-> pos]
    ELSE LET tIdx == Len(acc) + 1
             m == TearLayers(st, pos, a, il, pm, tearCts[tIdx],
                             [c \in 1 .. 2 |-> tearCents[tIdx][c] * 100 * TopDen * TopDen],
                             tearDer[tIdx], <<>>)
         IN  IF ~m.ok THEN [ok |-> FALSE, mats |-> acc, pos |-> m.pos]
             ELSE TearMats(st, m.pos, a, il, pm, tearCts, tearCents, tearDer,
                           Append(acc, m.layers))

\* lines 769-771 and 775: a tear point clamped into the image and rounded to a
\* pixel
TearPixel(pt, dim) ==
    [c \in 1 .. 2 |->
        RoundHalfEven(Min(Max(pt[c], 0), (dim[c] - 1) * PtDen), PtDen)]

\* the pixels of all tear points, line 775
TearZeros(mats, dim) ==
    UNION {UNION {{TearPixel(mats[t][l].pts[k], dim) : k \in DOMAIN mats[t][l].pts}
                  : l \in DOMAIN mats[t]} : t \in DOMAIN mats}

\* np.random.uniform(dirMin, dirMax) of lines 726 and 728, or the given value, as
\* a numerator over TopDen, with the stream position after it
TearDirMax(given, a, st, pos) ==
    IF given = None
    THEN [v |-> a.dirMin * TopDen + (a.dirMax - a.dirMin) * UniformSeq(st, pos, 1).us[1],
          pos |-> pos + 2]
    ELSE [v |-> given[1] * TopDen, pos |-> pos]

\* morphology.distance_transform_edt of a mask without a cleared pixel is not
\* determined by the mask; far stands for its value, the same at every pixel
TearDist2(p, zeros, far) == IF zeros = {} THEN far * far ELSE Dist2(p, zeros)

\* the distance map as an array in row order, in fixed point
TearDistField(zeros, far, dim) ==
    IF zeros = {} THEN [k \in 1 .. dim[1] * dim[2] |-> far * Scale]
    ELSE DistField(zeros, dim)

\* lines 774-785: the tear interior and its edge band around the cleared pixels, and
\* the stream position after them
TearRegions(dim, zeros, far, rn, randEdge, edgeWidth, st, pos) ==
    IF ~randEdge
    THEN [pos |-> pos,
          tearBW |-> {p \in Pix(dim) : TearDist2(p, zeros, far) * RadDen * RadDen <= rn * rn},
          edgeArea |-> {p \in Pix(dim) :
                           /\ TearDist2(p, zeros, far) * RadDen * RadDen > rn * rn
                           /\ TearDist2(p, zeros, far) * RadDen * RadDen
                                  <= (rn + edgeWidth * RadDen) * (rn + edgeWidth * RadDen)}]
    ELSE LET half == rn \div (2 * RadDen)
             us == UniformSeq(st, pos, dim[1] * dim[2]).us
             tearDist == TearDistField(zeros, far, dim)
             noisy == [k \in DOMAIN tearDist |->
                          tearDist[k] + ((2 * half * us[k] - half * TopDen) * Scale) \div TopDen]
             blurred == [k \in DOMAIN tearDist |-> Blur25(noisy, PixAt(k, dim), dim)]
         IN  [pos |-> pos + 2 * dim[1] * dim[2],
              tearBW |-> {p \in Pix(dim) :
                             blurred[RowOrder(p, dim)] * RadDen <= 25 * rn * Scale},
              edgeArea |-> {p \in Pix(dim) :
                               /\ blurred[RowOrder(p, dim)] * RadDen > 25 * rn * Scale
                               /\ blurred[RowOrder(p, dim)] * RadDen
                                      <= 25 * (rn + edgeWidth * RadDen) * Scale}]

\* line 722: the tear centres, and lines 723-731: the path differences at them
TearCents(sampSpl, cdTS) == [t \in DOMAIN cdTS |-> sampSpl[cdTS[t] + 1]]
TearDer(sampSpl, cdTS) ==
    [t \in DOMAIN cdTS |->
        LET i == IF cdTS[t] = 0 THEN 1 ELSE cdTS[t]
        IN  <<sampSpl[i][1] - sampSpl[i + 1][1], sampSpl[i][2] - sampSpl[i + 1][2]>>]

\* tearCts[t][layer] from the columns of lines 737-741
TearCtsOf(cols, nTears) == [t \in 1 .. nTears |-> [l \in DOMAIN cols |-> cols[l][t]]]

\* lines 774-797: the frame of a call that built its points
TearFinish(c, base, tearCts, layerMats, zeros, reg) ==
    [pc |-> "returned", tearCts |-> tearCts, layerMats |-> layerMats, zeros |-> zeros,
     bwReg |-> reg.tearBW, edgeArea |-> reg.edgeArea, pos |-> reg.pos] @@ base

\* lines 743-785
TearBuild(c, base, tearCts, mats) ==
    IF ~mats.ok THEN [pc |-> "ValueError", tearCts |-> tearCts] @@ base
    ELSE TearFinish(c, base, tearCts, mats.mats, TearZeros(mats.mats, c.dim),
                    TearRegions(c.dim, TearZeros(mats.mats, c.dim), c.far, c.rn, c.randEdge,
                                c.a.edgeWidth, c.st, mats.pos))

\* lines 738-766, given the first column of tearCts
TearCounts(c, base, il, pm, cols) ==
    IF ~cols.ok THEN [pc |-> "ValueError"] @@ base
    ELSE TearBuild(c, base, TearCtsOf(cols.cols, Len(base.cdTS)),
                   TearMats(c.st, cols.pos, c.a, il, pm,
                            TearCtsOf(cols.cols, Len(base.cdTS)),
                            TearCents(c.sampSpl, base.cdTS), TearDer(c.sampSpl, base.cdTS),
                            <<>>))

\* lines 730-741: a path of one sample has no difference to take (IndexError); an
\* empty range of first-layer counts is a ValueError
TearFirstColumn(c, base, il, pm, col0) ==
    TearCounts(c, base, il, pm,
               TearCountColumns(c.st, col0.pos, c.a, il, pm, c.rn, Len(base.cdTS), <<col0.vs>>))

TearDirs(c, base, il, pm) ==
    IF Len(c.sampSpl) < 2 THEN [pc |-> "IndexError"] @@ base
    ELSE IF c.a.l1MinCt >= c.a.l1MaxCt THEN [pc |-> "ValueError"] @@ base
    ELSE TearFirstColumn(c, base, il.v, pm.v,
                         RandintSeq(c.st, pm.pos, c.a.l1MinCt, c.a.l1MaxCt, Len(base.cdTS)))

\* lines 725-728
TearPerpMax(c, base, il) == TearDirs(c, base, il, TearDirMax(c.a.perpMax, c.a, c.st, il.pos))

\* lines 707-720: the trimmed span and the tear centres inside it, from the uniform
\* numerators of the spacings (us) and of the two ends (ends)
TearTrim(c, us, ends) ==
    TearPerpMax(c,
                [fn |-> "add_tear", splLen |-> Len(c.sampSpl) - 1,
                 tearStEnd |-> <<TearSpanEnd(c.a.tearStartFactor, ends.us[1], Len(c.sampSpl) - 1),
                                 TearSpanEnd(c.a.tearEndFactor, ends.us[2], Len(c.sampSpl) - 1)>>,
                 cdTS |-> SelectSeq(TearCumSpacing(c.a, us),
                                    LAMBDA x :
                                        /\ x >= TearSpanEnd(c.a.tearStartFactor, ends.us[1],
                                                            Len(c.sampSpl) - 1)
                                        /\ x < TearSpanEnd(c.a.tearEndFactor, ends.us[2],
                                                           Len(c.sampSpl) - 1))],
                TearDirMax(c.a.inLineMax, c.a, c.st, ends.pos))

TearSpacing(c, spacing) == TearTrim(c, spacing.us, UniformSeq(c.st, spacing.pos, 2))

\* lines 705-785 for the sampled path sampSpl, the stream st at position pos and the
\* arguments a: the frame add_tear leaves before it composites, or the error raised
TearFrame(dim, sampSpl, rn, randEdge, a, far, st, pos) ==
    TearSpacing([dim |-> dim, sampSpl |-> sampSpl, rn |-> rn, randEdge |-> randEdge,
                 a |-> a, far |-> far, st |-> st],
                UniformSeq(st, pos, Len(sampSpl)))

\* the words the streams are made of, and the streams: every cycle of at most
\* StreamLen words with a word that every range accepts
Words == {Word(0, 0), Word(3, 3)}
StreamLen == 5
Streams ==
    {st \in UNION {[1 .. n -> Words] : n \in 1 .. StreamLen} :
        \E i \in DOMAIN st : st[i].low = 0}

PairDims == {<<4, 4>>}
MaxPairWidth == 4
PairWidths == 0 .. MaxPairWidth

\* two calls of add_marker with the same seed (stream st), image and parameters,
\* and the widths w1 <= w2
add_marker_widths(dim, st, nPts, w1, w2) ==
    /\ cmp.pc = "idle"
    /\ w1 <= w2
    /\ cmp' = [pc |-> "compared", fn |-> "add_marker",
               args |-> [dim |-> dim, st |-> st, nPts |-> nPts, randEdge |-> FALSE,
                         w1 |-> w1, w2 |-> w2],
               r1 |-> MarkerRegionOf(dim, w1, nPts, st),
               r2 |-> MarkerRegionOf(dim, w2, nPts, st)]
    /\ UNCHANGED <<app, spl, ras, fold, rng, gen>>

\* two calls of add_sectioning with the same seed (stream st), image and
\* parameters, and the widths w1 <= w2
add_sectioning_widths(dim, st, randEdge, inPtsArg, nPts, endEdge, w1, w2) ==
    /\ cmp.pc = "idle"
    /\ w1 <= w2
    /\ cmp' = [pc |-> "compared", fn |-> "add_sectioning",
               args |-> [dim |-> dim, st |-> st, nPts |-> nPts, randEdge |-> randEdge,
                         inPts |-> inPtsArg, w1 |-> w1, w2 |-> w2],
               r1 |-> SectioningRegionOf(dim, w1, randEdge, inPtsArg, nPts, endEdge, st),
               r2 |-> SectioningRegionOf(dim, w2, randEdge, inPtsArg, nPts, endEdge, st)]
    /\ UNCHANGED <<app, spl, ras, fold, rng, gen>>

\* arguments of add_tear for a small image
TearArgs ==
    [minSpacing |-> 1, maxSpacing |-> 2,
     tearStartFactor |-> <<-15, 15>>, tearEndFactor |-> <<85, 115>>,
     dirMin |-> 2, dirMax |-> 4, inLineMax |-> Some(3), perpMax |-> Some(3),
     inLinePercs |-> << <<-50, -50>>, <<50, 50>> >>,
     perpPercs |-> << <<-50, -50>>, <<50, 50>> >>,
     l1MinCt |-> 1, l1MaxCt |-> 3,
     minDensity |-> << <<1, 2>> >>, maxDensity |-> << <<3, 2>> >>,
     edgeWidth |-> 2]

\* the value of the distance map of a mask without a cleared pixel: beyond every
\* radius, or zero
FarValues == {0, 64}

\* ptRadius = 1, 1.5 and 2
PairRadii == {4, 6, 8}

\* the region stage of add_tear(inputIm, nPts = nPts, ptRadius = rn / RadDen,
\* randEdge = randEdge, random_seed = seed, ...) for the seed whose stream is st
TearRegionOf(dim, rn, randEdge, nPts, a, far, st) ==
    LET sp == SplineOfStream(dim, nPts, PyBool(TRUE), PyInt(-2), st)
    IN  IF sp.pc # "returned" THEN [pc |-> sp.pc]
        ELSE TearFrame(dim, sp.splXY, rn, randEdge, a, far, st,
                       SplineStreamDraws(dim, nPts, PyBool(TRUE), PyInt(-2), st).pos)

\* two calls of add_tear with the same seed (stream st), image and parameters, and
\* the point radii r1 <= r2
add_tear_radii(dim, st, randEdge, nPts, a, far, r1, r2) ==
    /\ cmp.pc = "idle"
    /\ r1 <= r2
    /\ cmp' = [pc |-> "compared", fn |-> "add_tear",
               args |-> [dim |-> dim, st |-> st, nPts |-> nPts, randEdge |-> randEdge,
                         w1 |-> r1, w2 |-> r2],
               r1 |-> TearRegionOf(dim, r1, randEdge, nPts, a, far, st),
               r2 |-> TearRegionOf(dim, r2, randEdge, nPts, a, far, st)]
    /\ UNCHANGED <<app, spl, ras, fold, rng, gen>>

PairInPts == {None, Some(<<<<0, 0>>, <<2, 1>>>>)}

NextRegion ==
    \E dim \in PairDims, st \in Streams :
        \/ \E w1 \in PairWidths, w2 \in PairWidths :
               \/ add_marker_widths(dim, st, 3, w1, w2)
               \/ \E randEdge \in BOOLEAN, inPtsArg \in PairInPts :
                      add_sectioning_widths(dim, st, randEdge, inPtsArg, 2, PyInt(-2), w1, w2)
        \/ \E randEdge \in BOOLEAN, far \in FarValues, r1 \in PairRadii, r2 \in PairRadii :
               add_tear_radii(dim, st, randEdge, 2, TearArgs, far, r1, r2)

SpecRegion == InitIdle /\ [][NextRegion]_vars

(***************************************************************************)
(* add_fold                                                                *)
(*                                                                         *)
(* An image or array is [obj, size, px]: obj names the Python object, px   *)
(* is its content.  The content of the caller's image is its pixels; the   *)
(* content of a fold composite is held as the values it is computed from   *)
(* (cv2's getPerspectiveTransform, warpPerspective and GaussianBlur are    *)
(* applied to them outside this source).  The recursion is run one call at *)
(* a time on a stack of frames.                                            *)
(***************************************************************************)
Image(obj, size, px) == [obj |-> obj, size |-> size, px |-> px]

\* what np.random.seed takes without an error: None, or an integer in 0 .. 2^32 - 1
SeedAccepted(seed) == seed = None \/ InSeedRange(seed[1])

\* a faulty variant of FoldNoOp: only a negative count is a no-op
FoldNoOpBelowZero(nLayers) == nLayers < 0

\* line 266
FoldNoOp(nLayers) == nLayers < 1

\* int(a / b) for b > 0: truncation towards zero
TruncDiv(a, b) == IF a >= 0 THEN a \div b ELSE -((-a) \div b)

\* lines 272-277: the sampled path and the stream position after it.  A path handed
\* in is used as it is; otherwise rand_spline seeds again and starts the stream anew.
FoldPath(f, st) ==
    IF f.sampSpl # None
    THEN [sp |-> [pc |-> "returned", splXY |-> f.sampSpl[1]], pos |-> 0]
    ELSE IF f.inPts = None
    THEN [sp |-> SplineOfStream(f.inputIm.size, f.nPts, PyBool(TRUE), f.endEdge, st),
          pos |-> SplineStreamDraws(f.inputIm.size, f.nPts, PyBool(TRUE), f.endEdge, st).pos]
    ELSE [sp |-> SplineFrame(f.inputIm.size, f.inPts, 5, PyBool(TRUE), PyBool(TRUE),
                             [xs |-> <<>>, ys |-> <<>>, e1 |-> NoDraw, e2 |-> NoDraw]),
          pos |-> 0]

\* lines 282-285: shiftXY; an empty range of randint is a ValueError (ok is false)
FoldShift(f, st, pos) ==
    IF f.sampShiftXY # None THEN [ok |-> TRUE, vs |-> f.sampShiftXY[1], pos |-> pos]
    ELSE IF f.inputIm.size[1] \div 2 <= 0 THEN [ok |-> FALSE]
    ELSE [ok |-> TRUE] @@ RandintSeq(st, pos, -(f.inputIm.size[1] \div 2),
                                     f.inputIm.size[1] \div 2, 2)

\* line 295: sampSplBBox, <<minima, maxima>> of the path, in fixed point
FoldBBox(sampSpl) ==
    <<[c \in 1 .. 2 |-> SetMin({sampSpl[k][c] : k \in DOMAIN sampSpl})],
      [c \in 1 .. 2 |-> -SetMin({-sampSpl[k][c] : k \in DOMAIN sampSpl})]>>

\* lines 296-304: rsSplBBSz, the size of the scaled box, in fixed point
FoldBoxSize(bbox, scaleXY) == [c \in 1 .. 2 |-> (bbox[2][c] - bbox[1][c]) * scaleXY[c]]

FoldRandShiftsDone(rsx, rsy) == [ok |-> TRUE, x |-> rsx.vs, y |-> rsy.vs, pos |-> rsy.pos]

\* line 311
FoldRandShiftY(st, rsx, qy) ==
    IF qy <= 0 THEN [ok |-> FALSE]
    ELSE FoldRandShiftsDone(rsx, RandintSeq(st, rsx.pos, -qy, qy, 4))

\* lines 310-311: randShiftX and randShiftY, four draws each within a quarter of the
\* box; an empty range is a ValueError (ok is false)
FoldRandShifts(st, pos, sz) ==
    IF TruncDiv(sz[1], 4 * Scale) <= 0 THEN [ok |-> FALSE]
    ELSE FoldRandShiftY(st,
                        RandintSeq(st, pos, -TruncDiv(sz[1], 4 * Scale),
                                   TruncDiv(sz[1], 4 * Scale), 4),
                        TruncDiv(sz[2], 4 * Scale))

\* lines 313-318: the corners of the box of the path
FoldSampPts(bbox) ==
    [k \in 1 .. 4 |-> <<bbox[((k - 1) % 2) + 1][1], bbox[((k - 1) \div 2) + 1][2]>>]

\* lines 297-318: the corners sampled from, in units of 1 / (2 * Scale): the scaled
\* box moved by the padding, the shift and the random shift of each corner
FoldOutPts(bbox, scaleXY, pad, shiftXY, rs) ==
    [k \in 1 .. 4 |->
        <<bbox[1][1] + bbox[2][1]
              + (IF (k - 1) % 2 = 0 THEN -1 ELSE 1) * (bbox[2][1] - bbox[1][1]) * scaleXY[1]
              + 2 * Scale * (pad + shiftXY[1] + rs.x[k]),
          bbox[1][2] + bbox[2][2]
              + (IF (k - 1) \div 2 = 0 THEN -1 ELSE 1) * (bbox[2][2] - bbox[1][2]) * scaleXY[2]
              + 2 * Scale * (pad + shiftXY[2] + rs.y[k])>>]

\* line 326: the pixels of the truncated path
FoldIdx(sampSpl) == [k \in DOMAIN sampSpl |-> <<AsInt(sampSpl[k][1]), AsInt(sampSpl[k][2])>>]

\* lines 327-335: the region, or the error raised, and the stream position after
FoldRegion(dim, zeros, width, randEdge, st, pos) ==
    IF ~randEdge
    THEN [pc |-> "returned", pos |-> pos,
          bwReg |-> {p \in Pix(dim) : WithinHalfWidth(Dist2(p, zeros), width)}]
    ELSE IF TruncDiv(width, 4) <= 0 THEN [pc |-> "ValueError"]
    ELSE LET distRand == RandintSeq(st, pos, -TruncDiv(width, 4), TruncDiv(width, 4),
                                    dim[1] * dim[2])
             bwDist == DistField(zeros, dim)
             noisy == [k \in DOMAIN bwDist |-> bwDist[k] + distRand.vs[k] * Scale]
         IN  [pc |-> "returned", pos |-> distRand.pos,
              bwReg |-> {p \in Pix(dim) : 2 * Blur25(noisy, p, dim) <= 25 * width * Scale}]

\* lines 279-280: the sample source, a copy of the input unless one was handed in
FoldSampArr(f, objs) ==
    IF f.sampArr = None THEN Image(objs, f.inputIm.size, f.inputIm.px) ELSE f.sampArr[1]

\* lines 288-345: what one layer leaves: the composite, a new image whose content is
\* the base darkened inside bwReg by the warped sample
FoldComposite(f, objs, sampSpl, shiftXY, bbox, rs, reg) ==
    [pc |-> "layer", random_seed |-> f.random_seed, nLayers |-> f.nLayers,
     base |-> f.inputIm, sampSpl |-> sampSpl, sampArr |-> FoldSampArr(f, objs),
     shiftXY |-> shiftXY, randShiftX |-> rs.x, randShiftY |-> rs.y,
     bwReg |-> reg.bwReg, pos |-> reg.pos,
     comp_im |-> Image(objs + 1, f.inputIm.size,
                       [base |-> f.inputIm.px, samp |-> FoldSampArr(f, objs).px,
                        sampSplBBPts |-> FoldSampPts(bbox),
                        outBBPts |-> FoldOutPts(bbox, f.scaleXY,
                                                Max(f.inputIm.size[1], f.inputIm.size[2]),
                                                shiftXY, rs),
                        bwReg |-> reg.bwReg,
                        sampBlur |-> ((f.width \div 40) * 2) + 1])]

\* lines 324-335
FoldMasked(f, objs, sampSpl, shiftXY, bbox, rs, reg) ==
    IF reg.pc # "returned" THEN [pc |-> reg.pc]
    ELSE FoldComposite(f, objs, sampSpl, shiftXY, bbox, rs, reg)

\* lines 310-326: a path off the image is an IndexError
FoldBoxed(f, st, objs, sampSpl, shiftXY, bbox, rs) ==
    IF ~rs.ok THEN [pc |-> "ValueError"]
    ELSE IF ~IndicesOk(FoldIdx(sampSpl), f.inputIm.size) THEN [pc |-> "IndexError"]
    ELSE FoldMasked(f, objs, sampSpl, shiftXY, bbox, rs,
                    FoldRegion(f.inputIm.size, ZeroSet(FoldIdx(sampSpl), f.inputIm.size),
                               f.width, f.randEdge, st, rs.pos))

\* lines 282-311
FoldShifted(f, st, objs, sampSpl, shift) ==
    IF ~shift.ok THEN [pc |-> "ValueError"]
    ELSE FoldBoxed(f, st, objs, sampSpl, shift.vs, FoldBBox(sampSpl),
                   FoldRandShifts(st, shift.pos, FoldBoxSize(FoldBBox(sampSpl), f.scaleXY)))

\* lines 272-285
FoldSampled(f, st, objs, path) ==
    IF path.sp.pc # "returned" THEN [pc |-> path.sp.pc]
    ELSE FoldShifted(f, st, objs, path.sp.splXY, FoldShift(f, st, path.pos))

\* lines 265-345, the body of one call up to its composite, for the frame f of the
\* call and the stream st of its seed: the error raised, "noop" for the early return
\* of line 267, or the layer made
FoldLayer(f, st, objs) ==
    IF ~SeedAccepted(f.random_seed) THEN [pc |-> "ValueError"]
    ELSE IF FoldNoOp(f.nLayers) THEN [pc |-> "noop"]
    ELSE FoldSampled(f, st, objs, FoldPath(f, st))

\* lines 347-350: the frame of the recursive call; nPts and endEdge are not handed
\* on and take their defaults
FoldCallee(f, o) ==
    [inputIm |-> o.comp_im, sampArr |-> Some(o.sampArr), sampSpl |-> Some(o.sampSpl),
     inPts |-> f.inPts, random_seed |-> Some(SmallAdd(f.random_seed[1], 1)),
     scaleXY |-> f.scaleXY, width |-> f.width, sampShiftXY |-> f.sampShiftXY,
     randEdge |-> f.randEdge, nLayers |-> f.nLayers - 1, nPts |-> 3, endEdge |-> PyInt(-2)]

\* the layer o as the recursion state records it, with the two objects it made
FoldLogged(fr, o) ==
    [fr EXCEPT !.layers = Append(@, o), !.objs = @ + 2, !.drawn = @ + o.pos]

\* lines 265-351 for the innermost call f whose body gave o: it returns, fails or
\* calls add_fold again; random_seed + 1 of None is a TypeError
FoldAfterLayer(fr, f, o) ==
    IF o.pc = "noop" THEN [fr EXCEPT !.pc = "returning", !.ret = Some(f.inputIm)]
    ELSE IF o.pc # "layer" THEN [fr EXCEPT !.pc = o.pc]
    ELSE IF f.nLayers > 1
    THEN IF f.random_seed = None
         THEN [FoldLogged(fr, o) EXCEPT !.pc = "TypeError"]
         ELSE [FoldLogged(fr, o) EXCEPT !.stack = Append(@, FoldCallee(f, o))]
    ELSE [FoldLogged(fr, o) EXCEPT !.pc = "returning", !.ret = Some(o.comp_im)]

MaxLayers == 3
FoldDims == {<<4, 4>>}
FoldWidth == 4
\* random_seed: none given, 0, 2^32 - 2, 2^32 - 1 and -1
FoldSeeds ==
    {None, Some(SmallInt(0)), Some(I2(Limb - 1, Limb - 2)), Some(I2(Limb - 1, Limb - 1)),
     Some(SmallInt(-1))}
FoldScales == {<<1, 1>>, <<4, 4>>}
FoldShifts == {None, Some(<<1, -1>>)}
FoldStreams == {<<Word(0, 0), Word(3, 3)>>, <<Word(3, 1), Word(1, 2), Word(0, 0)>>}

\* add_fold(inputIm, inPts = inPts, random_seed = random_seed, scaleXY = scaleXY,
\* width = FoldWidth, sampShiftXY = sampShiftXY, randEdge = randEdge,
\* nLayers = nLayers): the call is entered.  streams[d] is the stream of the seed of
\* the call at depth d (for no seed: of the entropy numpy takes).
add_fold(inputIm, inPts, random_seed, scaleXY, sampShiftXY, randEdge, nLayers, streams) ==
    /\ fold.pc = "idle"
    /\ LET f == [inputIm |-> inputIm, sampArr |-> None, sampSpl |-> None, inPts |-> inPts,
                 random_seed |-> random_seed, scaleXY |-> scaleXY, width |-> FoldWidth,
                 sampShiftXY |-> sampShiftXY, randEdge |-> randEdge, nLayers |-> nLayers,
                 nPts |-> 3, endEdge |-> PyInt(-2)]
       IN  fold' = [pc |-> "running", args |-> f, stack |-> <<f>>, layers |-> <<>>,
                    ret |-> None, streams |-> streams, objs |-> inputIm.obj + 1, drawn |-> 0]
    /\ UNCHANGED <<app, spl, ras, cmp, rng, gen>>

\* the innermost call of add_fold runs lines 265-350
fold_layer ==
    /\ fold.pc = "running"
    /\ fold' = FoldAfterLayer(fold, fold.stack[Len(fold.stack)],
                              FoldLayer(fold.stack[Len(fold.stack)],
                                        fold.streams[Len(fold.stack)], fold.objs))
    /\ UNCHANGED <<app, spl, ras, cmp, rng, gen>>

\* lines 348-351 and 267: the innermost call returns its image to its caller, which
\* takes it as comp_im
fold_return ==
    /\ fold.pc = "returning"
    /\ fold' = [fold EXCEPT !.stack = SubSeq(@, 1, Len(@) - 1),
                            !.pc = IF Len(fold.stack) = 1 THEN "returned" ELSE "returning"]
    /\ UNCHANGED <<app, spl, ras, cmp, rng, gen>>

NextFold ==
    \/ \E dim \in FoldDims, inPts \in PairInPts, random_seed \in FoldSeeds,
          scaleXY \in FoldScales, sampShiftXY \in FoldShifts, randEdge \in BOOLEAN,
          nLayers \in -1 .. MaxLayers, streams \in [1 .. MaxLayers -> FoldStreams] :
           add_fold(Image(0, dim, RampIm(dim)), inPts, random_seed, scaleXY, sampShiftXY,
                    randEdge, nLayers, streams)
    \/ fold_layer
    \/ fold_return

SpecFold == InitIdle /\ [][NextFold]_vars

(***************************************************************************)
(* The shared generator across calls                                       *)
(*                                                                         *)
(* rng is the state of np.random: the stream it reads (st), the number of  *)
(* words of it consumed (pos), and seeds, the stream that each integer     *)
(* seed starts (seeds[s + 1] for the seed s).  gen is the log of the       *)
(* generator calls made on it: for each call its arguments, the state it   *)
(* found the generator in, what it drew and what it returned.  A call that *)
(* raises ends the program.                                                *)
(***************************************************************************)
\* a faulty variant of NpSeed: seeding leaves the generator where it is
NpSeedKept(r, seed) == r

\* np.random.seed(seed) for an integer seed: the stream of the seed, from its start
NpSeed(r, seed) == [r EXCEPT !.st = r.seeds[seed[1].lo + 1], !.pos = 0]

RngAt(r, pos) == [r EXCEPT !.pos = pos]

\* what a call leaves: how it ended, what it drew, what it returned and the state
\* of the generator after it
Ran(pc, draws, out, r) == [pc |-> pc, draws |-> draws, out |-> out, rng |-> r]
FrameRan(frame, draws, r) == Ran(frame.pc, draws, frame, r)

\* rand_spline(dim, inPts, nPts, random_seed, startEdge, endEdge) on the generator
\* r, lines 41-82: it seeds, then draws the handle points unless they are given
NoSplineDraws == [xs |-> <<>>, ys |-> <<>>, e1 |-> NoDraw, e2 |-> NoDraw]

RandSplineDrawn(r1, dim, nPts, startEdge, endEdge, d) ==
    [sp |-> SplineFrame(dim, None, nPts, startEdge, endEdge, d.draws), rng |-> RngAt(r1, d.pos)]

RandSplineSeeded(r1, dim, inPtsArg, nPts, startEdge, endEdge) ==
    IF inPtsArg # None
    THEN [sp |-> SplineFrame(dim, inPtsArg, nPts, startEdge, endEdge, NoSplineDraws),
          rng |-> r1]
    ELSE RandSplineDrawn(r1, dim, nPts, startEdge, endEdge,
                         SplineDrawsAt(dim, nPts, startEdge, endEdge, r1.st, r1.pos))

RandSplineRun(r, dim, inPtsArg, nPts, startEdge, endEdge, seed) ==
    RandSplineSeeded(NpSeed(r, seed), dim, inPtsArg, nPts, startEdge, endEdge)

\* rand_gauss(dim, nNorms, random_seed, ...) on the generator r, lines 116-152: it
\* seeds, draws the nNorms centres (x, then y) and for each density its scale, its
\* two variances and its covariance.  The field is computed from these draws.
RandGaussDrawn(r1, n, u) ==
    [draws |-> [centX |-> SubSeq(u.us, 1, n), centY |-> SubSeq(u.us, n + 1, 2 * n),
                cov |-> [nm \in 1 .. n |-> SubSeq(u.us, 2 * n + 4 * nm - 3, 2 * n + 4 * nm)]],
     rng |-> RngAt(r1, u.pos)]

RandGaussSeeded(r1, nNorms) == RandGaussDrawn(r1, nNorms, UniformSeq(r1.st, r1.pos, 6 * nNorms))

RandGaussRun(r, nNorms, seed) == RandGaussSeeded(NpSeed(r, seed), nNorms)

\* add_marker, lines 189-221: seed, the colour draws of line 193 unless rgbVal is
\* given, the path, the composite
RgbRange == << <<0, 50>>, <<0, 50>>, <<0, 100>> >>

RECURSIVE MarkerRgbFill(_, _, _)
MarkerRgbFill(st, pos, acc) ==
    IF Len(acc) = 3 THEN [vs |-> acc, pos |-> pos]
    ELSE LET d == RandintOne(st, pos, RgbRange[Len(acc) + 1][1], RgbRange[Len(acc) + 1][2])
         IN  MarkerRgbFill(st, d.pos, Append(acc, d.v))

MarkerRgb(r1, rgbArg) ==
    IF rgbArg # None THEN [vs |-> rgbArg[1], pos |-> r1.pos]
    ELSE MarkerRgbFill(r1.st, r1.pos, <<>>)

MarkerSplined(a, rgb, s) ==
    FrameRan(MarkerFrame(a.inputIm, a.dim, s.sp, a.width, a.alpha, rgb.vs, a),
             <<rgb.vs, s.sp.args.draws>>, s.rng)

MarkerColoured(r1, seed, a, rgb) ==
    MarkerSplined(a, rgb,
                  RandSplineRun(RngAt(r1, rgb.pos), a.dim, None, a.nPts, PyBool(TRUE),
                                PyBool(TRUE), seed))

MarkerRun(r, seed, a) == MarkerColoured(NpSeed(r, seed), seed, a, MarkerRgb(NpSeed(r, seed), a.rgbVal))

\* add_fold, lines 265-351, all layers: each call seeds with its own seed
FoldDraws(o) ==
    [sampSpl |-> o.sampSpl, shiftXY |-> o.shiftXY, randShiftX |-> o.randShiftX,
     randShiftY |-> o.randShiftY, bwReg |-> o.bwReg]

RECURSIVE FoldRunLayers(_, _, _, _)
FoldRunLayers(r, f, objs, acc) ==
    LET r1 == NpSeed(r, f.random_seed)
        o == FoldLayer(f, r1.st, objs)
    IN  IF o.pc = "noop" THEN Ran("returned", acc, f.inputIm, r1)
        ELSE IF o.pc # "layer" THEN Ran(o.pc, acc, None, r1)
        ELSE IF f.nLayers > 1
        THEN FoldRunLayers(RngAt(r1, o.pos), FoldCallee(f, o), objs + 2,
                           Append(acc, FoldDraws(o)))
        ELSE Ran("returned", Append(acc, FoldDraws(o)), o.comp_im, RngAt(r1, o.pos))

FoldRun(r, seed, a) ==
    FoldRunLayers(r,
                  [inputIm |-> a.inputIm, sampArr |-> None, sampSpl |-> None,
                   inPts |-> a.inPts, random_seed |-> seed, scaleXY |-> a.scaleXY,
                   width |-> a.width, sampShiftXY |-> a.sampShiftXY,
                   randEdge |-> a.randEdge, nLayers |-> a.nLayers, nPts |-> 3,
                   endEdge |-> PyInt(-2)],
                  a.inputIm.obj + 1, <<>>)

\* add_sectioning, lines 391-413: seed, the path, the jitter of line 405 and the two
\* draws of lines 412-413
SectioningRan(s, reg, sc) ==
    Ran("returned", <<s.sp.args.draws, reg.distRand, sc.us>>,
        [bwReg |-> reg.bwReg, scaleRand |-> sc.us, inPts |-> s.sp.inPts,
         endEdge |-> s.sp.args.endEdge],
        RngAt(s.rng, sc.pos))

SectioningRegioned(s, reg) ==
    IF reg.pc # "returned" THEN Ran(reg.pc, <<s.sp.args.draws>>, None, s.rng)
    ELSE SectioningRan(s, reg, UniformSeq(s.rng.st, reg.pos, 2))

SectioningSplined(a, s) ==
    IF s.sp.pc # "returned" THEN Ran(s.sp.pc, <<>>, None, s.rng)
    ELSE SectioningRegioned(s, SectioningRegion(a.dim, s.sp.splXY, a.width, a.randEdge,
                                                s.rng.st, s.rng.pos))

SectioningRun(r, seed, a) ==
    SectioningSplined(a,
                      IF a.inPts = None
                      THEN RandSplineRun(NpSeed(r, seed), a.dim, None, 5, PyBool(TRUE),
                                         PyBool(TRUE), seed)
                      ELSE RandSplineRun(NpSeed(r, seed), a.dim, None, a.nPts, PyBool(TRUE),
                                         a.endEdge, seed))

\* add_illumination, lines 502-521: seed, rand_gauss, the two draws of lines 520-521
IlluminationGaussed(g, sc) ==
    Ran("returned", <<g.draws, sc.us>>, [field |-> g.draws, scaleRand |-> sc.us],
        RngAt(g.rng, sc.pos))

IlluminationRun(r, seed, a) ==
    IlluminationGaussed(RandGaussRun(NpSeed(r, seed), a.nNorms, seed),
                        UniformSeq(RandGaussRun(NpSeed(r, seed), a.nNorms, seed).rng.st,
                                   RandGaussRun(NpSeed(r, seed), a.nNorms, seed).rng.pos, 2))

\* add_bubbles, lines 452-459: seed, rand_gauss
BubblesGaussed(g) == Ran("returned", <<g.draws>>, [field |-> g.draws], g.rng)

BubblesRun(r, seed, a) == BubblesGaussed(RandGaussRun(NpSeed(r, seed), a.nBubbles, seed))

\* add_stain, lines 611-616: with adjFactor given nothing is seeded or drawn;
\* otherwise, per stain, a uniform draw and then the choice of its exponent
RECURSIVE StainFill(_, _, _)
StainFill(st, pos, acc) ==
    IF Len(acc) = 3 THEN [vs |-> acc, pos |-> pos]
    ELSE LET c == RandintOne(st, pos + 2, 0, 2)
         IN  StainFill(st, c.pos,
                       Append(acc, [u |-> UniformSeq(st, pos, 1).us[1],
                                    exponent |-> IF c.v = 0 THEN -1 ELSE 1]))

StainDrawn(r1, d) == Ran("returned", d.vs, [adjFactor |-> d.vs], RngAt(r1, d.pos))

StainRun(r, seed, a) ==
    IF a.adjFactor # None THEN Ran("returned", <<>>, [adjFactor |-> a.adjFactor[1]], r)
    ELSE StainDrawn(NpSeed(r, seed), StainFill(NpSeed(r, seed).st, NpSeed(r, seed).pos, <<>>))

\* add_tear, lines 699-785: seed, the path, the tear points and regions
TearRan(s, fr) ==
    FrameRan(fr, <<s.sp.args.draws>>,
             IF fr.pc = "returned" THEN RngAt(s.rng, fr.pos) ELSE s.rng)

TearSplined(a, s) ==
    IF s.sp.pc # "returned" THEN Ran(s.sp.pc, <<>>, None, s.rng)
    ELSE TearRan(s, TearFrame(a.dim, s.sp.splXY, a.ptRadius, a.randEdge, TearArgs, a.far,
                              s.rng.st, s.rng.pos))

TearRun(r, seed, a) ==
    TearSplined(a, RandSplineRun(NpSeed(r, seed), a.dim, None, a.nPts, PyBool(TRUE),
                                 PyInt(-2), seed))

MaxCalls == 2
RngDim == <<4, 4>>
RngSeeds == {Some(SmallInt(0)), Some(SmallInt(1))}
\* the streams of the seeds 0, 1 and 2
SeedStreams ==
    << <<Word(3, 1), Word(1, 2), Word(0, 0)>>, <<Word(0, 0), Word(3, 3)>>,
       <<Word(2, 1), Word(0, 0), Word(3, 2)>> >>
\* the streams the generator may be on before the first call
RngStreams == {<<Word(1, 2), Word(0, 0)>>, <<Word(3, 1), Word(2, 0), Word(0, 3)>>}

\* the generator as the first call finds it: numpy seeded it from entropy when it was
\* imported (line 3) and other code may have drawn from it since
np_import(st, pos) ==
    /\ rng.pc = "idle"
    /\ rng' = [pc |-> "imported", st |-> st, pos |-> pos, seeds |-> SeedStreams]
    /\ UNCHANGED <<app, spl, ras, fold, cmp, gen>>

\* the arguments of the calls, on a small image
MarkerArgs(rgbVal) ==
    [inputIm |-> RampIm(RngDim), dim |-> RngDim, nPts |-> 3, width |-> 2, alpha |-> 3,
     rgbVal |-> rgbVal]
FoldArgs(nLayers) ==
    [inputIm |-> Image(0, RngDim, RampIm(RngDim)), inPts |-> None, scaleXY |-> <<4, 4>>,
     width |-> FoldWidth, sampShiftXY |-> None, randEdge |-> TRUE, nLayers |-> nLayers]
SectioningArgs(inPts) ==
    [dim |-> RngDim, width |-> 4, randEdge |-> TRUE, inPts |-> inPts, nPts |-> 2,
     endEdge |-> PyInt(-2)]
IlluminationArgs(nNorms) == [dim |-> RngDim, nNorms |-> nNorms]
BubblesArgs(nBubbles) == [dim |-> RngDim, nBubbles |-> nBubbles]
StainArgs(adjFactor) == [adjFactor |-> adjFactor]
TearCallArgs(randEdge) ==
    [dim |-> RngDim, nPts |-> 2, ptRadius |-> 4, randEdge |-> randEdge, far |-> 64]

\* a call with its arguments
Called(a, run) ==
    [args |-> a, pc |-> run.pc, draws |-> run.draws, out |-> run.out, rng |-> run.rng]

\* a generator is called with an integer seed and returns or raises
GeneratorCall(fn, seed, run) ==
    /\ rng.pc = "imported"
    /\ Len(gen) < MaxCalls
    /\ IF gen = <<>> THEN TRUE ELSE gen[Len(gen)].pc = "returned"
    /\ gen' = Append(gen, [fn |-> fn, random_seed |-> seed, args |-> run.args,
                           before |-> [st |-> rng.st, pos |-> rng.pos],
                           pc |-> run.pc, draws |-> run.draws, out |-> run.out])
    /\ rng' = run.rng
    /\ UNCHANGED <<app, spl, ras, fold, cmp>>

call_add_marker(seed, rgbVal) ==
    GeneratorCall("add_marker", seed,
                  Called(MarkerArgs(rgbVal), MarkerRun(rng, seed, MarkerArgs(rgbVal))))
call_add_fold(seed, nLayers) ==
    GeneratorCall("add_fold", seed,
                  Called(FoldArgs(nLayers), FoldRun(rng, seed, FoldArgs(nLayers))))
call_add_sectioning(seed, inPts) ==
    GeneratorCall("add_sectioning", seed,
                  Called(SectioningArgs(inPts), SectioningRun(rng, seed, SectioningArgs(inPts))))
call_add_illumination(seed, nNorms) ==
    GeneratorCall("add_illumination", seed,
                  Called(IlluminationArgs(nNorms),
                         IlluminationRun(rng, seed, IlluminationArgs(nNorms))))
call_add_bubbles(seed, nBubbles) ==
    GeneratorCall("add_bubbles", seed,
                  Called(BubblesArgs(nBubbles), BubblesRun(rng, seed, BubblesArgs(nBubbles))))
call_add_stain(seed, adjFactor) ==
    GeneratorCall("add_stain", seed,
                  Called(StainArgs(adjFactor), StainRun(rng, seed, StainArgs(adjFactor))))
call_add_tear(seed, randEdge) ==
    GeneratorCall("add_tear", seed,
                  Called(TearCallArgs(randEdge), TearRun(rng, seed, TearCallArgs(randEdge))))

NextRng ==
    \/ \E st \in RngStreams, pos \in 0 .. 1 : np_import(st, pos)
    \/ \E seed \in RngSeeds :
           \/ \E rgbVal \in {None, Some(<<255, 0, 16>>)} : call_add_marker(seed, rgbVal)
           \/ \E nLayers \in {0, 2} : call_add_fold(seed, nLayers)
           \/ \E inPts \in PairInPts : call_add_sectioning(seed, inPts)
           \/ call_add_illumination(seed, 2)
           \/ call_add_bubbles(seed, 1)
           \/ \E adjFactor \in {None, Some(<<1, 1, 1>>)} : call_add_stain(seed, adjFactor)
           \/ \E randEdge \in BOOLEAN : call_add_tear(seed, randEdge)

SpecRng == InitIdle /\ [][NextRng]_vars

(***************************************************************************)
(* Rasterising a path: the indices written into the mask                   *)
(*                                                                         *)
(* A generator gets its path from the caller (sampSpl), from the caller's  *)
(* handle points (inPts) or from drawn handle points, and clears the mask  *)
(* at the integer indices of the path's points.                            *)
(***************************************************************************)
\* the indices <<x, y>> at which fn clears mask[y, x] for the path sampSpl: rounded
\* in add_marker (line 205), truncated in add_fold (328) and add_sectioning (402)
MaskIdx(fn, sampSpl) ==
    CASE fn = "add_marker" -> MarkerIdx(sampSpl)
      [] fn = "add_fold" -> FoldIdx(sampSpl)
      [] fn = "add_sectioning" -> SectioningIdx(sampSpl)

\* the call of rand_spline that fn makes when sampSpl is not given, as <<nPts,
\* endEdge>> of the generated points, or None when the caller's inPts are used:
\* lines 199-202, 274-277 and 396-399
PathCall(fn, inPts, nPts, endEdge) ==
    CASE fn = "add_marker" -> IF inPts = None THEN Some(<<nPts, PyBool(TRUE)>>) ELSE None
      [] fn = "add_fold" -> IF inPts = None THEN Some(<<nPts, endEdge>>) ELSE None
      [] fn = "add_sectioning" ->
             IF inPts = None THEN Some(<<5, PyBool(TRUE)>>) ELSE Some(<<nPts, endEdge>>)

\* what np.random can return to that call
PathDraws(fn, dim, sampSpl, inPts, nPts, endEdge) ==
    IF sampSpl # None \/ PathCall(fn, inPts, nPts, endEdge) = None
    THEN {[xs |-> <<>>, ys |-> <<>>, e1 |-> NoDraw, e2 |-> NoDraw]}
    ELSE SplineDraws(dim, PathCall(fn, inPts, nPts, endEdge)[1][1], PyBool(TRUE),
                     PathCall(fn, inPts, nPts, endEdge)[1][2])

\* the path fn works on
PathOf(fn, dim, sampSpl, inPts, nPts, endEdge, draws) ==
    IF sampSpl # None THEN [pc |-> "returned", splXY |-> sampSpl[1]]
    ELSE IF PathCall(fn, inPts, nPts, endEdge) = None
    THEN SplineFrame(dim, inPts, nPts, PyBool(TRUE), PyBool(TRUE), draws)
    ELSE SplineFrame(dim, None, PathCall(fn, inPts, nPts, endEdge)[1][1], PyBool(TRUE),
                     PathCall(fn, inPts, nPts, endEdge)[1][2], draws)

\* fn up to its mask, for the path frame sp: the indices used, and whether numpy
\* accepted them
MaskFrame(fn, dim, sp, args) ==
    IF sp.pc # "returned" THEN [pc |-> sp.pc, fn |-> fn, args |-> args]
    ELSE [pc |-> IF IndicesOk(MaskIdx(fn, sp.splXY), dim) THEN "masked" ELSE "IndexError",
          fn |-> fn, args |-> args, sampSpl |-> sp.splXY,
          idx |-> {MaskIdx(fn, sp.splXY)[k] : k \in DOMAIN sp.splXY}]

MaskCall(fn, dim, sampSpl, inPts, nPts, endEdge) ==
    /\ ras.pc = "idle"
    /\ \E draws \in PathDraws(fn, dim, sampSpl, inPts, nPts, endEdge) :
           ras' = MaskFrame(fn, dim, PathOf(fn, dim, sampSpl, inPts, nPts, endEdge, draws),
                            [dim |-> dim, sampSpl |-> sampSpl, inPts |-> inPts,
                             nPts |-> nPts, endEdge |-> endEdge])
    /\ UNCHANGED <<app, spl, fold, cmp, rng, gen>>

\* add_marker(inputIm, sampSpl = sampSpl, inPts = inPts, nPts = nPts), lines 196-205
add_marker_mask(dim, sampSpl, inPts, nPts) ==
    MaskCall("add_marker", dim, sampSpl, inPts, nPts, PyBool(TRUE))

\* add_fold(inputIm, sampSpl = sampSpl, inPts = inPts, nPts = nPts,
\* endEdge = endEdge), lines 270-328
add_fold_mask(dim, sampSpl, inPts, nPts, endEdge) ==
    MaskCall("add_fold", dim, sampSpl, inPts, nPts, endEdge)

\* add_sectioning(inputIm, sampSpl = sampSpl, inPts = inPts, nPts = nPts,
\* endEdge = endEdge), lines 392-402
add_sectioning_mask(dim, sampSpl, inPts, nPts, endEdge) ==
    MaskCall("add_sectioning", dim, sampSpl, inPts, nPts, endEdge)

\* add_tear up to its mask, lines 700-775, for the frame fr of its tear points: the
\* points are brought into the image (769-771) before they are rounded to indices
TearMaskFrame(fr, args) ==
    IF fr.pc # "returned" THEN [pc |-> fr.pc, fn |-> "add_tear", args |-> args]
    ELSE [pc |-> "masked", fn |-> "add_tear", args |-> args, tearXY |-> fr.layerMats,
          idx |-> fr.zeros]

\* the path of add_tear, lines 702-703, and the stream position after it
TearPath(dim, sampSpl, nPts, st) ==
    IF sampSpl # None THEN [sp |-> [pc |-> "returned", splXY |-> sampSpl[1]], pos |-> 0]
    ELSE [sp |-> SplineOfStream(dim, nPts, PyBool(TRUE), PyInt(-2), st),
          pos |-> SplineStreamDraws(dim, nPts, PyBool(TRUE), PyInt(-2), st).pos]

TearMasked(dim, path, rn, st, args) ==
    IF path.sp.pc # "returned" THEN [pc |-> path.sp.pc, fn |-> "add_tear", args |-> args]
    ELSE TearMaskFrame(TearFrame(dim, path.sp.splXY, rn, FALSE, TearArgs, 64, st, path.pos),
                       args)

\* add_tear(inputIm, sampSpl = sampSpl, nPts = nPts, ptRadius = rn / RadDen,
\* random_seed = seed) for the seed whose stream is st
add_tear_mask(dim, sampSpl, nPts, rn, st) ==
    /\ ras.pc = "idle"
    /\ ras' = TearMasked(dim, TearPath(dim, sampSpl, nPts, st), rn, st,
                         [dim |-> dim, sampSpl |-> sampSpl, nPts |-> nPts, st |-> st])
    /\ UNCHANGED <<app, spl, fold, cmp, rng, gen>>

MaskDims == {<<3, 2>>}
\* sampled paths a caller hands in, in fixed point: inside the image, left of it,
\* right of it, and with coordinates between pixels at both borders
GivenSampSpl ==
    {<<<<0, 0>>, <<Scale, Scale>>>>,
     <<<<-Scale, 0>>, <<0, 0>>>>,
     <<<<2 * Scale, Scale>>, <<3 * Scale, Scale>>>>,
     <<<<-400, 0>>, <<2 * Scale + 600, Scale>>>>}
\* handle points a caller hands in: inside the image, left of it, right of it
GivenMaskInPts ==
    {<<<<0, 0>>, <<2, 1>>>>, <<<<-1, 0>>, <<1, 1>>>>, <<<<1, 1>>, <<4, 1>>>>}
MaskEndEdges == {PyInt(-2), PyBool(TRUE)}

NextMask ==
    \E dim \in MaskDims,
       sampSpl \in {None} \cup {Some(s) : s \in GivenSampSpl},
       inPts \in {None} \cup {Some(p) : p \in GivenMaskInPts}, nPts \in 2 .. 3 :
        \/ add_marker_mask(dim, sampSpl, inPts, nPts)
        \/ \E endEdge \in MaskEndEdges :
               \/ add_fold_mask(dim, sampSpl, inPts, nPts, endEdge)
               \/ add_sectioning_mask(dim, sampSpl, inPts, nPts, endEdge)
        \/ \E st \in Streams : add_tear_mask(dim, sampSpl, nPts, 4, st)

SpecMask == InitIdle /\ [][NextMask]_vars

(***************************************************************************)
(* add_tear as a whole call                                                *)
(***************************************************************************)
\* the arguments of a call: the defaults scaled to a small image (1), and factor
\* ranges that reach below 0 and above 1 and let the start pass the end (2)
TearArgsOf(v) ==
    IF v = 1 THEN TearArgs
    ELSE [TearArgs EXCEPT !.tearStartFactor = <<-60, 60>>, !.tearEndFactor = <<20, 180>>]

\* lines 787-796: tearAlpha = 1 inside the tear, edgeAlpha = .75 on the edge band,
\* rgbVal = (245, 245, 245), and the mean colour times edgeColorMult = [.85, .7, .85]
\* on the edge band
TearComposite(inputIm, dim, bwReg, edgeArea) ==
    Composite([p \in Pix(dim) |->
                  IF p \in edgeArea
                  THEN <<MeanColorTimes(inputIm, dim, 1, 85, 100),
                         MeanColorTimes(inputIm, dim, 2, 70, 100),
                         MeanColorTimes(inputIm, dim, 3, 85, 100)>>
                  ELSE <<245, 245, 245>>],
              inputIm,
              [p \in Pix(dim) |-> IF p \in edgeArea THEN AlphaByte(TRUE, 3)
                                  ELSE AlphaByte(p \in bwReg, AlphaDen)],
              dim)

\* lines 787-797 on the frame fr of the tear points, for the path sampSpl
TearComposited(inputIm, dim, args, sampSpl, fr) ==
    IF fr.pc # "returned" THEN [args |-> args, sampSpl |-> sampSpl] @@ fr
    ELSE [args |-> args, sampSpl |-> sampSpl,
          comp_im |-> TearComposite(inputIm, dim, fr.bwReg, fr.edgeArea)] @@ fr

\* lines 699-797
TearCall(dim, inputIm, path, rn, randEdge, v, far, st, args) ==
    IF path.sp.pc # "returned" THEN [pc |-> path.sp.pc, fn |-> "add_tear", args |-> args]
    ELSE TearComposited(inputIm, dim, args, path.sp.splXY,
                        TearFrame(dim, path.sp.splXY, rn, randEdge, TearArgsOf(v), far, st,
                                  path.pos))

\* add_tear(inputIm, sampSpl = sampSpl, nPts = 2, ptRadius = rn / RadDen,
\* randEdge = randEdge, random_seed = seed, ...) for the seed whose stream is st
add_tear(dim, sampSpl, rn, randEdge, v, far, st) ==
    /\ ras.pc = "idle"
    /\ ras' = TearCall(dim, RampIm(dim), TearPath(dim, sampSpl, 2, st), rn, randEdge, v, far,
                       st, [dim |-> dim, inputIm |-> RampIm(dim), sampSpl |-> sampSpl,
                            ptRadius |-> rn, randEdge |-> randEdge, v |-> v, far |-> far,
                            st |-> st])
    /\ UNCHANGED <<app, spl, fold, cmp, rng, gen>>

TearDims == {<<4, 4>>}
\* sampled paths a caller hands in: two and four samples along a row
TearLines ==
    {[k \in 1 .. 2 |-> <<(k - 1) * Scale, Scale>>], [k \in 1 .. 4 |-> <<(k - 1) * Scale, Scale>>]}
\* ptRadius = 1
TearRadii == {4}
\* the streams of the seeds: the cycles of at most three words
TearStreams == {st \in Streams : Len(st) <= 3}

\* one call is looked at
NextTear ==
    /\ ras.pc = "idle"
    /\ \E st \in TearStreams, dim \in TearDims,
          sampSpl \in {None} \cup {Some(s) : s \in TearLines},
          rn \in TearRadii, randEdge \in BOOLEAN, v \in 1 .. 2, far \in FarValues :
           add_tear(dim, sampSpl, rn, randEdge, v, far, st)

SpecTear == InitIdle /\ [][NextTear]_vars

(***************************************************************************)
(* Claims about the seed derivation                                        *)
(***************************************************************************)
\* 2^32 - 1 = 3 * 5 * 17 * 257 * 65537: two integers are congruent modulo randMax
\* exactly when they are congruent modulo each of these primes
RandMaxFactors == {3, 5, 17, 257, 65537}

\* 2^16 modulo p, as 1 or -1 for the factors of randMax
LimbMod(p) == IF Limb % p = p - 1 THEN -1 ELSE Limb % p

RECURSIVE MagResidue(_, _)
MagResidue(mag, p) ==
    IF mag = <<>> THEN 0
    ELSE (mag[1] + LimbMod(p) * MagResidue(Tail(mag), p)) % p

\* the residue modulo p of digest + randAdd + offset, computed limb by limb
HashResidue(fID, randAdd, t, p) ==
    (MagResidue(Trim(Reverse(blake2s_hexdigest(fID))), p) + randAdd + typeSeedAdd(t)) % p

SeedResidue(n, p) == (n.lo + LimbMod(p) * n.hi) % p

\* C2: the seed apply_artifact derives is (digest(identity) + typeOffset(type) +
\* extraOffset) mod (2^32 - 1): it is congruent to that sum modulo 2^32 - 1 and lies
\* in [0, 2^32 - 1], for every identity, supported type and offset (negative ones
\* included), so it is a function of the three inputs; and exactly this value is the
\* random_seed argument of the call of the generator of that type.
C2_SeedDerived ==
    app.pc = "returned" =>
        /\ InSeedRange(app.random_seed)
        /\ \A p \in RandMaxFactors :
               SeedResidue(app.random_seed, p)
                   = HashResidue(app.fID, app.randAdd, app.artifactType, p)
        /\ app.call = [fn |-> GeneratorOf(app.artifactType),
                       random_seed |-> app.random_seed]

\* a call whose random_hash is negative: the digest is smaller than -randAdd
C2_Witness ==
    /\ app.pc = "returned"
    /\ app.randAdd < 0
    /\ IntAdd(IntAdd(HexToInt(blake2s_hexdigest(app.fID)), app.randAdd),
              typeSeedAdd(app.artifactType)).neg
    /\ app.random_seed.hi = Limb - 2
    /\ app.call.fn = "add_stain"

\* C3: for the identity and the extra offset of a call, every other artifact type
\* gets a seed different from the one derived, also when the sum wraps around
\* 2^32 - 1.
C3_TypesGetDistinctSeeds ==
    app.pc = "returned" =>
        \A t2 \in ArtifactTypes \ {app.artifactType} :
            DeriveSeed(app.fID, app.randAdd, t2) # app.random_seed

\* a call whose sum is exactly a multiple of 2^32 - 1 (seed 0) while the seeds of
\* the smaller offsets are just below 2^32 - 1
C3_Witness ==
    /\ app.pc = "returned"
    /\ app.random_seed = I2(0, 0)
    /\ app.artifactType = "bubbles"
    /\ DeriveSeed(app.fID, app.randAdd, "illumination") = I2(Limb - 1, Limb - 2)


(***************************************************************************)
(* Claims about rand_spline                                                *)
(***************************************************************************)
\* the point pt (coordinates in units of 1/unit pixel) lies on edge E of the image
OnEdge(pt, E, dim, unit) ==
    CASE E = 0 -> pt[1] = 0
      [] E = 1 -> pt[2] = 0
      [] E = 2 -> pt[1] = (dim[1] - 1) * unit
      [] E = 3 -> pt[2] = (dim[2] - 1) * unit

OnSomeEdge(pt, dim, unit) == \E E \in 0 .. 3 : OnEdge(pt, E, dim, unit)

\* a call that generated its handle points and got as far as using them
SplineGenerated ==
    /\ spl.pc \in {"returned", "ValueError"}
    /\ spl.args.inPtsArg = None

\* C6: with generated handle points (nPts >= 2) and a forced start edge E in 0..3,
\* the first handle point lies on edge E whatever was drawn and whatever the end
\* edge is, and so does the first sample of the returned path.
C6_StartOnForcedEdge ==
    (SplineGenerated /\ spl.args.nPts >= 2 /\ spl.args.startEdge.t = "int"
         /\ spl.args.startEdge.v \in 0 .. 3) =>
        /\ OnEdge(spl.inPts[1], spl.args.startEdge.v, spl.args.dim, 1)
        /\ spl.pc = "returned" =>
               OnEdge(spl.splXY[1], spl.args.startEdge.v, spl.args.dim, Scale)

\* a two-point path forced to start on the right edge and to end on the left edge,
\* the coordinate both pins write
C6_Witness ==
    /\ spl.pc = "returned"
    /\ spl.args.inPtsArg = None
    /\ spl.args.nPts = 2
    /\ spl.args.startEdge = PyInt(2)
    /\ spl.args.endEdge = PyInt(0)
    /\ spl.args.dim = <<3, 2>>
    /\ spl.splXY[1][1] = 2 * Scale
    /\ spl.inPts[2][1] = 0

\* the call add_marker makes when neither sampSpl nor inPts is given (line 200):
\* rand_spline(dim, nPts = nPts, random_seed = random_seed), nPts = 3 by default
MarkerDefaultPath ==
    /\ spl.pc = "returned"
    /\ spl.args.inPtsArg = None
    /\ spl.args.nPts = 3
    /\ spl.args.startEdge = PyBool(TRUE)
    /\ spl.args.endEdge = PyBool(TRUE)

\* C7: the first and the last point of the path add_marker generates by default both
\* lie on an image edge.
C7_MarkerPathEndsOnEdges ==
    MarkerDefaultPath =>
        /\ OnSomeEdge(spl.splXY[1], spl.args.dim, Scale)
        /\ OnSomeEdge(spl.splXY[Len(spl.splXY)], spl.args.dim, Scale)


(***************************************************************************)
(* Claims about the band of add_marker and about compositing               *)
(***************************************************************************)
MarkerReturned == ras.pc = "returned" /\ ras.fn = "add_marker"

\* C8: add_marker leaves every pixel unchanged whose Euclidean distance to the
\* nearest rasterised path pixel is greater than width/2 (so also every pixel
\* farther than width), for every path, colour and alpha.
C8_MarkerOnlyInBand ==
    MarkerReturned =>
        \A p \in Pix(ras.args.dim) :
            4 * Dist2(p, ras.zeros) > ras.args.width * ras.args.width
                => ras.comp_im[p] = ras.args.inputIm[p]

\* an opaque marker that changed a pixel inside the band and left one outside it
C8_Witness ==
    /\ MarkerReturned
    /\ ras.args.alpha = AlphaDen
    /\ ras.args.width = 2
    /\ \E p, q \in Pix(ras.args.dim) :
           /\ 4 * Dist2(p, ras.zeros) > ras.args.width * ras.args.width
           /\ 4 * Dist2(q, ras.zeros) = ras.args.width * ras.args.width
           /\ ras.comp_im[q] # ras.args.inputIm[q]

Composited == ras.pc = "returned" /\ ras.fn \in {"add_marker", "add_bubbles"}

\* C10: in add_marker and add_bubbles, alpha = 0 gives the input image, alpha = 1
\* with a region covering every pixel gives the colour layer, and the 8-bit alpha of
\* a pixel is floor(alpha * 255) inside the region and 0 outside.
C10_CompositeAlpha ==
    Composited =>
        /\ ras.args.alpha = 0 => ras.comp_im = ras.args.inputIm
        /\ (ras.args.alpha = AlphaDen /\ ras.bwReg = Pix(ras.args.dim))
               => ras.comp_im = ras.color_layer
        /\ \A p \in Pix(ras.args.dim) :
               IF p \in ras.bwReg
               THEN /\ ras.alpha_mask[p] * AlphaDen <= ras.args.alpha * 255
                    /\ ras.args.alpha * 255 < (ras.alpha_mask[p] + 1) * AlphaDen
               ELSE ras.alpha_mask[p] = 0

\* a bubble layer at alpha = 1/2 (8-bit alpha 127) over part of the image, which
\* blends the colours: the output is neither the input nor the colour layer there
C10_Witness ==
    /\ ras.pc = "returned" /\ ras.fn = "add_bubbles"
    /\ 2 * ras.args.alpha = AlphaDen
    /\ \E p, q \in Pix(ras.args.dim) :
           /\ p \in ras.bwReg /\ q \notin ras.bwReg
           /\ ras.alpha_mask[p] = 127
           /\ ras.comp_im[p] # ras.args.inputIm[p]
           /\ ras.comp_im[p] # ras.color_layer[p]


(***************************************************************************)
(* Claims about the regions                                                *)
(***************************************************************************)
BothReturned == cmp.pc = "compared" /\ cmp.r1.pc = "returned" /\ cmp.r2.pc = "returned"

\* C9 as stated: with the seed, the image and every other parameter fixed, the
\* region of add_marker, add_sectioning and add_tear for the width (point radius)
\* w1 is a subset of the region for w2 whenever w1 <= w2, with randEdge off or on.
C9_RegionGrowsWithWidth ==
    BothReturned => cmp.r1.bwReg \subseteq cmp.r2.bwReg

\* C9 as amended: the region grows with the width in add_marker, and in
\* add_sectioning when randEdge is off.
C9_RegionGrowsWithoutJitter ==
    (BothReturned /\ cmp.fn \in {"add_marker", "add_sectioning"} /\ ~cmp.args.randEdge)
        => cmp.r1.bwReg \subseteq cmp.r2.bwReg

\* a sectioning region without jitter that gained pixels from the wider width
C9_Witness ==
    /\ BothReturned
    /\ cmp.fn = "add_sectioning" /\ ~cmp.args.randEdge
    /\ cmp.args.w1 = 1 /\ cmp.args.w2 = 2
    /\ cmp.r1.bwReg # {}
    /\ cmp.r1.bwReg # cmp.r2.bwReg
    /\ cmp.r2.bwReg # Pix(cmp.args.dim)

(***************************************************************************)
(* Claims about add_fold                                                   *)
(***************************************************************************)
FoldCalled == fold.pc # "idle"
FoldAlive == fold.pc \in {"running", "returning", "returned"}
FoldBack == fold.pc \in {"returning", "returned"}

\* C4: add_fold called with nLayers < 1 (and a seed numpy accepts) returns the
\* input image itself, so unchanged pixel for pixel, whatever the other
\* parameters are, and runs no layer: it draws nothing, samples and warps nothing
\* and makes no image or array
C4_FoldNoLayersReturnsInput ==
    (FoldCalled /\ fold.args.nLayers < 1 /\ SeedAccepted(fold.args.random_seed)) =>
        /\ FoldAlive
        /\ fold.layers = <<>> /\ fold.drawn = 0 /\ fold.objs = fold.args.inputIm.obj + 1
        /\ Len(fold.stack) <= 1
        /\ FoldBack => fold.ret = Some(fold.args.inputIm)

C4_Witness ==
    /\ fold.pc = "returned" /\ fold.args.nLayers = 0
    /\ fold.args.random_seed = Some(SmallInt(0))
    /\ fold.args.randEdge /\ fold.args.scaleXY = <<1, 1>> /\ fold.args.sampShiftXY = None
    /\ fold.ret = Some(fold.args.inputIm) /\ fold.layers = <<>>

\* layer i (counted from 1) of a call with seed s and n layers is seeded with
\* s + i - 1, has n - i + 1 layers left, is based on the composite of the layer
\* before (the input image for the first) and uses the path and the sample source
\* of the first layer
FoldLayersChain ==
    \A i \in DOMAIN fold.layers :
        /\ fold.layers[i].random_seed = Some(SmallAdd(fold.args.random_seed[1], i - 1))
        /\ fold.layers[i].nLayers = fold.args.nLayers - (i - 1)
        /\ fold.layers[i].base = IF i = 1 THEN fold.args.inputIm ELSE fold.layers[i - 1].comp_im
        /\ fold.layers[i].sampSpl = fold.layers[1].sampSpl
        /\ fold.layers[i].sampArr = fold.layers[1].sampArr

\* C5: for nLayers = n >= 1 and an integer seed s (one numpy accepts), a call of
\* add_fold that has made its first layer does not fail and ends after exactly n
\* layers: layer i is seeded with s + i, based on the composite of layer i - 1,
\* with the path and sample source of layer 0; the count goes down by 1 per layer
\* and the last layer runs with nLayers = 1, its composite being what the call
\* returns
C5_FoldRunsEveryLayer ==
    (/\ FoldCalled /\ fold.args.nLayers >= 1
     /\ fold.args.random_seed # None /\ SeedAccepted(fold.args.random_seed)
     /\ fold.layers # <<>>) =>
        /\ FoldAlive
        /\ FoldLayersChain
        /\ FoldBack =>
               /\ Len(fold.layers) = fold.args.nLayers
               /\ fold.layers[Len(fold.layers)].nLayers = 1
               /\ fold.ret = Some(fold.layers[Len(fold.layers)].comp_im)

(***************************************************************************)
(* Claims about the shared generator                                       *)
(***************************************************************************)
SameCall(c, d) == c.fn = d.fn /\ c.random_seed = d.random_seed /\ c.args = d.args

\* C1: two calls of one generator with the same integer seed, parameters and input
\* image draw the same values and end the same way with the same output, whatever
\* state earlier calls left the shared generator in
C1_SameInputsSameDraws ==
    \A i \in DOMAIN gen : \A j \in DOMAIN gen :
        SameCall(gen[i], gen[j]) =>
            /\ gen[i].pc = gen[j].pc
            /\ gen[i].draws = gen[j].draws
            /\ gen[i].out = gen[j].out

C1_Witness ==
    \E i \in DOMAIN gen : \E j \in DOMAIN gen :
        /\ i < j /\ SameCall(gen[i], gen[j])
        /\ gen[i].before # gen[j].before
        /\ gen[i].fn = "add_tear" /\ gen[i].args.randEdge
        /\ gen[i].pc = "returned" /\ gen[j].pc = "returned"
        /\ gen[i].out.zeros # {}


(***************************************************************************)
(* Claims about the handle points of rand_spline                           *)
(***************************************************************************)
\* fewer than 2 handle points are available to a call that was made
FewHandlePoints ==
    /\ spl.pc # "idle"
    /\ IF spl.args.inPtsArg = None THEN spl.args.nPts < 2
       ELSE Len(spl.args.inPtsArg[1]) < 2

\* C13: rand_spline fails with an InvalidInputError, and returns no path, whenever
\* fewer than 2 handle points are available: nPts < 2 with generated points, or
\* supplied inPts with fewer than 2 rows.
C13_FewPointsInvalidInput == FewHandlePoints => spl.pc = "InvalidInputError"

\* handle point i as np.random drew it
DrawnPt(i) == <<spl.args.draws.xs[i], spl.args.draws.ys[i]>>

\* handle point i as drawn and then put on edge E
DrawnPtOnEdge(i, E) == PinToEdge(<<DrawnPt(i)>>, 1, E, spl.args.dim)[1]

\* C19: with generated handle points the boolean edge flags are switches.
\* startEdge = False leaves the first handle point at its draw and endEdge = False
\* the last one; startEdge = True puts the first handle point, and endEdge = True the
\* last one, on an edge drawn at random from the four.
C19_BoolEdgeFlagsSwitch ==
    (SplineGenerated /\ spl.args.nPts >= 2) =>
        /\ spl.args.startEdge = PyBool(FALSE) => spl.inPts[1] = DrawnPt(1)
        /\ spl.args.endEdge = PyBool(FALSE) =>
               spl.inPts[spl.args.nPts] = DrawnPt(spl.args.nPts)
        /\ spl.args.startEdge = PyBool(TRUE) =>
               spl.inPts[1] = DrawnPtOnEdge(1, spl.args.draws.e1)
        /\ spl.args.endEdge = PyBool(TRUE) =>
               /\ EndEdgeDrawn(spl.args.startEdge, spl.args.endEdge)
               /\ spl.inPts[spl.args.nPts] = DrawnPtOnEdge(spl.args.nPts, spl.args.draws.e2)

\* C20: with generated handle points, a relative endEdge (-4 .. -1) and no start
\* edge chosen (line 49 gives no start edge flag), the last handle point is put on
\* an edge drawn at random from the four.
C20_RelativeEndWithoutStart ==
    (/\ SplineGenerated /\ spl.args.nPts >= 2
     /\ spl.args.endEdge.t = "int" /\ spl.args.endEdge.v \in -4 .. -1
     /\ ~StartEdgeFlag(spl.args.startEdge)) =>
        /\ EndEdgeDrawn(spl.args.startEdge, spl.args.endEdge)
        /\ spl.inPts[spl.args.nPts] = DrawnPtOnEdge(spl.args.nPts, spl.args.draws.e2)


(***************************************************************************)
(* Claims about the path of add_sectioning                                 *)
(***************************************************************************)
\* C18: in add_sectioning without sampSpl, a supplied inPts gives a path through
\* exactly those handle points and no handle point is drawn; without inPts the path
\* runs through nPts drawn handle points and ends as the caller's endEdge says.
C18_SectioningPathSource ==
    \A k \in DOMAIN gen :
        (gen[k].fn = "add_sectioning" /\ gen[k].pc = "returned") =>
            IF gen[k].args.inPts # None
            THEN /\ gen[k].out.inPts = gen[k].args.inPts[1]
                 /\ gen[k].draws[1] = NoSplineDraws
            ELSE /\ Len(gen[k].out.inPts) = gen[k].args.nPts
                 /\ Len(gen[k].draws[1].xs) = gen[k].args.nPts
                 /\ gen[k].out.endEdge = gen[k].args.endEdge


(***************************************************************************)
(* Claims about the indices of the mask                                    *)
(***************************************************************************)
\* a generator got as far as indexing its mask
Rasterised == ras.pc \in {"masked", "IndexError"}

InImage(i, dim) == i[1] \in 0 .. dim[1] - 1 /\ i[2] \in 0 .. dim[2] - 1

\* C12: in add_marker, add_fold, add_sectioning and add_tear every index used on
\* the mask lies in [0, width-1] x [0, height-1], for generated paths and for
\* supplied handle points or sampled paths: no negative and no too-large index is
\* used.
C12_IndicesClamped ==
    Rasterised => \A i \in ras.idx : InImage(i, ras.args.dim)

(***************************************************************************)
(* Claims about the ownership of the images                                *)
(***************************************************************************)
\* the objects a call of add_fold was handed: its image
FoldCallerObjs == {fold.args.inputIm.obj}

\* C11: add_fold leaves the image it is handed unchanged and returns an image
\* object that is not the one it was handed, nor the source it sampled from, for
\* every setting of its parameters, nLayers < 1 included; every composite and every
\* sample source made on the way is an object of its own
C11_ReturnsNewImage ==
    FoldCalled =>
        /\ \A i \in DOMAIN fold.layers :
               /\ fold.layers[i].comp_im.obj \notin FoldCallerObjs
               /\ fold.layers[i].sampArr.obj \notin FoldCallerObjs
               /\ fold.layers[i].base.px = (IF i = 1 THEN fold.args.inputIm.px
                                            ELSE fold.layers[i - 1].comp_im.px)
        /\ fold.pc = "returned" =>
               /\ fold.ret # None
               /\ fold.ret[1].obj \notin FoldCallerObjs

(***************************************************************************)
(* Claims about the command-line call                                      *)
(***************************************************************************)
AppCalled == app.pc # "idle"
AppFailed == app.pc \notin {"idle", "returned"}

\* C14: a call of apply_artifact with a type that is, in lower case, none of the
\* seven supported ones raises InvalidInputError and calls no generator; a call
\* that fails, on the type or inside the generator, ends in the error and saves no
\* file and makes no directory: the image is saved only after the generator has
\* returned
C14_FailurePropagatesNothingWritten ==
    /\ (AppCalled /\ app.artifactType \notin ArtifactTypes) =>
           app.pc = "InvalidInputError" /\ app.call = None
    /\ AppFailed => app.saved = None /\ app.dirs = {}
    /\ (AppCalled /\ app.saved # None) => app.pc = "returned" /\ app.call # None

\* the tile-level identity: the slide-level one extended with the stem of the file
TileLevelID(f) == <<f.rDir2, f.rDir1>> \o <<f.stem>>

\* C15: with no perTileRand the identity is tile-level for marker, fold,
\* sectioning, illumination, bubbles and tear and slide-level for stain; a
\* perTileRand of True makes it tile-level and one of False slide-level for every
\* type.  The slide-level identity is made of the two directories above the file
\* only, so it and the seed are the same for every file of a directory; the
\* tile-level identity is the slide-level one extended with the stem
C15_IdentityGranularity ==
    (AppCalled /\ app.artifactType \in ArtifactTypes) =>
        /\ app.fID =
             (IF \/ app.perTileRand = PyBool(TRUE)
                 \/ app.perTileRand = PyNone
                      /\ app.artifactType \in {"marker", "fold", "sectioning",
                                               "illumination", "bubbles", "tear"}
              THEN TileLevelID(app.inputImName)
              ELSE <<app.inputImName.rDir2, app.inputImName.rDir1>>)
        /\ app.random_seed = DeriveSeed(app.fID, app.randAdd, app.artifactType)

C15_Witness ==
    /\ app.pc = "returned" /\ app.artifactType = "stain" /\ app.perTileRand = PyNone
    /\ app.fID = <<"cohort", "slideB">> /\ app.inputImName.stem = "tile2"

\* the name the doc comment gives: <stem>_<suffix>.<ext>, ext without a period
DocOutputName(f, t, ext) ==
    <<f.stem, "_", OutputSuffix(t), ".">> \o (IF f.ext = "" /\ ext = None THEN <<>>
                                             ELSE <<IF ext = None THEN f.ext ELSE ext[1]>>)

\* C16: with no output name given, a call that returns has saved the image as
\* <stem>_<first 4 characters of the type in lower case>.<ext>, one period between
\* suffix and extension, ext being the one given or else the one of the input
\* file, and inside outputDir when one is given
C16_DefaultOutputName ==
    (app.pc = "returned" /\ app.outputImName = None) =>
        app.saved = Some((IF app.outputDir = None THEN <<>>
                          ELSE <<app.outputDir[1], "/">>)
                         \o DocOutputName(app.inputImName, app.artifactType, app.ext))


(***************************************************************************)
(* Claims about the end edge of rand_spline                                *)
(***************************************************************************)
\* the edge the first handle point was put on: the one given, or the one drawn
StartEdgeUsed == IF StartEdgeGiven(spl.args.startEdge) THEN spl.args.startEdge.v
                 ELSE spl.args.draws.e1

\* the edge a relative endEdge stands for when the path starts on edge e, as the
\* doc comment has it: -4 the same, -3 one step on, -2 the opposite, -1 three steps on
DocRelativeEdge(rel, e) ==
    CASE rel = -4 -> e
      [] rel = -3 -> (e + 1) % 4
      [] rel = -2 -> (e + 2) % 4
      [] rel = -1 -> (e + 3) % 4

\* C21: with generated handle points and a start edge e in use, a relative endEdge
\* puts the last handle point on the edge the doc comment names (-4 on e, -3 on
\* (e+1) mod 4, -2 on (e+2) mod 4, -1 on (e+3) mod 4) and draws no edge; an
\* absolute endEdge k in 0 .. 3 puts it on edge k whatever the start edge is.  The
\* other coordinate of the point stays as drawn.
C21_EndEdgePinned ==
    (SplineGenerated /\ spl.args.nPts >= 2 /\ spl.args.endEdge.t = "int") =>
        /\ (spl.args.endEdge.v \in -4 .. -1 /\ StartEdgeFlag(spl.args.startEdge)) =>
               /\ spl.inPts[spl.args.nPts]
                    = DrawnPtOnEdge(spl.args.nPts,
                                    DocRelativeEdge(spl.args.endEdge.v, StartEdgeUsed))
               /\ OnEdge(spl.inPts[spl.args.nPts],
                         DocRelativeEdge(spl.args.endEdge.v, StartEdgeUsed),
                         spl.args.dim, 1)
               /\ spl.args.draws.e2 = NoDraw
        /\ spl.args.endEdge.v \in 0 .. 3 =>
               /\ spl.inPts[spl.args.nPts] = DrawnPtOnEdge(spl.args.nPts, spl.args.endEdge.v)
               /\ OnEdge(spl.inPts[spl.args.nPts], spl.args.endEdge.v, spl.args.dim, 1)

\* a path begun on the bottom edge with endEdge = -3 ends on the left edge
C21_Witness ==
    /\ spl.pc = "returned" /\ spl.args.inPtsArg = None /\ spl.args.nPts = 3
    /\ spl.args.dim = <<3, 3>>
    /\ spl.args.startEdge = PyInt(3) /\ spl.args.endEdge = PyInt(-3)
    /\ spl.args.draws.xs[3] = 1
    /\ spl.inPts[1][2] = 2 /\ spl.inPts[3][1] = 0


(***************************************************************************)
(* Claims about the layers, the span and the empty tear of add_tear        *)
(***************************************************************************)
\* a call of add_tear that built its tear points
TearBuilt == ras.pc = "returned" /\ ras.fn = "add_tear"

\* tear centre t as a point in units of 1/PtDen pixel
TearCentreOf(t) ==
    [c \in 1 .. 2 |-> ras.sampSpl[ras.cdTS[t] + 1][c] * 100 * TopDen * TopDen]

\* pt is reached from the point from by offsets along and across the path at tear
\* centre t, each within the range of the layer
TearOffsetFrom(pt, from, t, layer) ==
    \E u1 \in 0 .. TopDen - 1, u2 \in 0 .. TopDen - 1 :
        pt = TearPoint(from, TearDer(ras.sampSpl, ras.cdTS)[t],
                       TearFactor(TearArgsOf(ras.args.v).inLinePercs, layer,
                                  TearArgsOf(ras.args.v).inLineMax[1] * TopDen, u1),
                       TearFactor(TearArgsOf(ras.args.v).perpPercs, layer,
                                  TearArgsOf(ras.args.v).perpMax[1] * TopDen, u2))

TearTrimmed == ras.pc # "idle" /\ ras.fn = "add_tear" /\ "cdTS" \in DOMAIN ras

\* C23: after the clamp the trimmed span lies in the path, 0 <= start and
\* end <= splLen (and start <= splLen, 0 <= end); every retained position p has
\* start <= p < end and so is an index of the sampled path and of its differences,
\* whatever was drawn for the spacings and for the two fractions
C23_TearSpanInPath ==
    TearTrimmed =>
        /\ ras.splLen = Len(ras.sampSpl) - 1
        /\ \A i \in 1 .. 2 : 0 <= ras.tearStEnd[i] /\ ras.tearStEnd[i] <= ras.splLen
        /\ \A t \in DOMAIN ras.cdTS :
               /\ ras.tearStEnd[1] <= ras.cdTS[t] /\ ras.cdTS[t] < ras.tearStEnd[2]
               /\ ras.cdTS[t] + 1 \in DOMAIN ras.sampSpl
               /\ ras.cdTS[t] \in 0 .. ras.splLen

\* the start fraction drawn is below 0 and the end fraction above 1, both ends are
\* brought back to the path, and tear centres are retained
C23_Witness ==
    /\ TearBuilt /\ ras.args.v = 2 /\ ras.splLen = 3
    /\ WordAt(ras.args.st, 2 * Len(ras.sampSpl)).top = 0
    /\ WordAt(ras.args.st, 2 * Len(ras.sampSpl) + 2).top = 3
    /\ ras.args.sampSpl # None
    /\ ras.tearStEnd = <<0, 3>>
    /\ Len(ras.cdTS) >= 2

\* the trim of a call left no tear centre
TearNoCentres == TearTrimmed /\ ras.cdTS = <<>>

\* C24: a call of add_tear whose trim leaves no tear centre (start >= end, or no
\* position in the span) ends without an error, clears no pixel of the point mask,
\* has an empty tear interior and an empty edge band, and returns an image equal
\* to the input image at every pixel
C24_NoCentresNoChange ==
    TearNoCentres =>
        /\ ras.pc = "returned"
        /\ ras.zeros = {}
        /\ ras.bwReg = {} /\ ras.edgeArea = {}
        /\ ras.comp_im = ras.args.inputIm

(***************************************************************************)
(* Claims about the seeds of the layers of add_fold                        *)
(***************************************************************************)
\* C25: a call of add_fold with nLayers >= 2 and a seed its first layer accepts (an
\* integer in 0 .. 2^32 - 1, or none given) that has made its first layer hands a
\* seed on to every deeper layer: computing it raises no error, and it is a value
\* np.random.seed accepts
C25_FoldSeedHandOver ==
    (/\ FoldCalled /\ fold.args.nLayers >= 2 /\ SeedAccepted(fold.args.random_seed)
     /\ fold.layers # <<>>) =>
        /\ fold.pc # "TypeError"
        /\ \A d \in DOMAIN fold.stack : SeedAccepted(fold.stack[d].random_seed)
=============================================================================
